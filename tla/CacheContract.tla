---------------------------- MODULE CacheContract ----------------------------
(***************************************************************************)
(* What the query result cache promises, whatever the store, its tag index *)
(* and the stages of a request are: a memory of answers from which a purge *)
(* takes everything that carries the tag.  The one thing it cannot reach   *)
(* is what a request holds in its hands at that moment: this becomes late, *)
(* and stays so when it is remembered.                                     *)
(***************************************************************************)
EXTENDS Naturals

CONSTANTS
    Procs,   \* those who ask
    Keys,    \* the questions
    Objs,    \* the objects of the upstream
    Reads,   \* Reads[k]: the objects the answer to k shows
    Keyed,   \* Keyed[k]: those of them it can be purged by
    Tags,
    Tagged,  \* Tagged[k]: the tags of the answer to k
    Nothing

VARIABLES
    db,      \* the version of every object
    memo,    \* the remembered answers
    held,    \* the answer in the hands of each process
    floor,   \* what the answer to k could show at the last purge of one of its tags
    acked    \* the versions that clients were told of

vars == <<db, memo, held, floor, acked>>

Zero == [o \in Objs |-> 0]

Init ==
    /\ db = Zero
    /\ memo = [k \in Keys |-> Nothing]
    /\ held = [p \in Procs |-> Nothing]
    /\ floor = [k \in Keys |-> Zero]
    /\ acked = Zero

Snapshot(k) == [o \in Objs |-> IF o \in Reads[k] THEN db[o] ELSE 0]

\* Nothing, or as it was.
ForgetfulOf(k) == memo'[k] \in {memo[k], Nothing}

-----------------------------------------------------------------------------
\* The upstream's objects change.
Change ==
    /\ \A o \in Objs : db[o] <= db'[o]
    /\ UNCHANGED <<memo, held, floor, acked>>

\* A process takes what the upstream answers, or what is remembered.
Ask(p, k) ==
    /\ held' = [held EXCEPT ![p] = [key |-> k, body |-> Snapshot(k), late |-> FALSE]]
    /\ UNCHANGED <<db, memo, floor, acked>>

Recall(p, k) ==
    /\ memo[k] # Nothing
    /\ held' = [held EXCEPT ![p] =
                  [key |-> k, body |-> memo[k].body, late |-> memo[k].late]]
    /\ UNCHANGED <<db, memo, floor, acked>>

\* It makes it be remembered, or lets it go.
Remember(p) ==
    /\ held[p] # Nothing
    /\ memo' = [memo EXCEPT ![held[p].key] =
                  [body |-> held[p].body, late |-> held[p].late]]
    /\ held' = [held EXCEPT ![p] = Nothing]
    /\ UNCHANGED <<db, floor, acked>>

LetGo(p) ==
    /\ held' = [held EXCEPT ![p] = Nothing]
    /\ UNCHANGED <<db, memo, floor, acked>>

\* Answers are forgotten at any time.
Forget ==
    /\ DOMAIN memo' = Keys
    /\ \A k \in Keys : ForgetfulOf(k)
    /\ UNCHANGED <<db, held, floor, acked>>

\* After a purge nothing with the tag is remembered but what was late already;
\* what is held becomes late.
Purge(t) ==
    /\ DOMAIN memo' = Keys
    /\ \A k \in Keys :
          /\ ForgetfulOf(k)
          /\ t \in Tagged[k] /\ memo'[k] # Nothing => memo[k].late
    /\ held' = [p \in Procs |->
                  IF held[p] # Nothing /\ t \in Tagged[held[p].key]
                  THEN [held[p] EXCEPT !.late = TRUE] ELSE held[p]]
    /\ floor' = [k \in Keys |-> IF t \in Tagged[k] THEN Snapshot(k) ELSE floor[k]]
    /\ UNCHANGED <<db, acked>>

\* A client is told of a change only when no purge is owed for it.
Acknowledge ==
    /\ \A o \in Objs : acked'[o] = acked[o] \/ acked'[o] \in acked[o]..db[o]
    /\ \A k \in Keys : \A o \in Keyed[k] : acked'[o] <= floor[k][o]
    /\ UNCHANGED <<db, memo, held, floor>>

Next ==
    \/ Change \/ Forget \/ Acknowledge
    \/ \E p \in Procs, k \in Keys : Ask(p, k) \/ Recall(p, k)
    \/ \E p \in Procs : Remember(p) \/ LetGo(p)
    \/ \E t \in Tags : Purge(t)

Spec == Init /\ [][Next]_vars
=============================================================================
