------------------------------ MODULE Caddyfile ------------------------------
(***************************************************************************)
(* What the Caddyfile directive gbox { ... } configures: the parsers of    *)
(* caddyfile.go, caddyfile_caching.go and caddyfile_complexity.go, the     *)
(* defaults of Provision, and what Validate and the store factories demand.*)
(*                                                                         *)
(* A directive is a record [name, args, block]: the tokens on its line and *)
(* the directives in its braces.  The dispenser reads a token too many on  *)
(* a line as the next directive: where the directives have set names, such *)
(* a token is none of them here.  Braces after a directive that takes none *)
(* are read so too; those of a type's fields are not written here.         *)
(* Settings are records whose fields have the directives' names, and err   *)
(* says that parsing stopped; a pointer that may be nil is a set of at     *)
(* most one record.                                                        *)
(***************************************************************************)
EXTENDS Integers, Sequences, SequencesExt, FiniteSets, TLC

CONSTANTS
    Lines,          \* the directives that files are made of
    Numeral,        \* the values of the tokens that strconv.Atoi reads ...
    Duration,       \* ... and of those that caddy.ParseDuration reads
    Urls,           \* the tokens that do as the URL of an upstream ...
    Addresses,      \* ... and, after it, as the address of another one
    Dsn,            \* Dsn[t]: scheme and parameter of a token that reads as a DSN
    Replaced,       \* what Caddy's replacer makes of the tokens with placeholders
    DefaultDsn,     \* freecache://?cache_size=104857600
    ProxyOptions    \* names that the reverse proxy knows

\* A file is made of directives down to the innermost braces.
ASSUME LinesAssumption ==
    Lines \subseteq [name : STRING, args : Seq(STRING), block : Seq(Lines)]

ASSUME ZeroAssumption ==
    /\ "0" \in DOMAIN Numeral => Numeral["0"] = 0
    /\ "0" \in DOMAIN Duration => Duration["0"] = 0

ASSUME DsnAssumption ==
    /\ DefaultDsn \in DOMAIN Dsn
    /\ \A t \in DOMAIN Replaced : Replaced[t] \in DOMAIN Dsn \cup {""}

Truth == [true |-> TRUE, false |-> FALSE]

\* A directive that takes one argument, or several, and no block.
Takes(d, tokens) == d.block = <<>> /\ Len(d.args) = 1 /\ Head(d.args) \in tokens
TakesSome(d) == d.block = <<>> /\ d.args # <<>>
Arg(d) == Head(d.args)

Fail(c) == [c EXCEPT !.err = TRUE]

\* The directives of a block, in order, up to the first error.
Parse(Directive(_, _), c, block) ==
    LET after[n \in 0..Len(block)] ==
          IF n = 0 THEN c
          ELSE LET before == after[n - 1]
               IN  IF before.err THEN before ELSE Directive(before, block[n])
    IN  after[Len(block)]

-----------------------------------------------------------------------------
NewComplexity ==
    [err |-> FALSE, enabled |-> TRUE,
     max_depth |-> 0, node_count_limit |-> 0, max_complexity |-> 0]

ComplexityDirective(c, d) ==
    CASE d.name = "enabled" /\ Takes(d, DOMAIN Truth) ->
           [c EXCEPT !.enabled = Truth[Arg(d)]]
      [] /\ d.name \in {"max_depth", "node_count_limit", "max_complexity"}
         /\ Takes(d, DOMAIN Numeral) ->
           [c EXCEPT ![d.name] = Numeral[Arg(d)]]
      [] OTHER -> Fail(c)

-----------------------------------------------------------------------------
Nothing == [err |-> FALSE, val |-> <<>>]

Add(acc, name, val) ==
    [acc EXCEPT !.val = [n \in DOMAIN acc.val \cup {name} |->
                           IF n = name THEN val ELSE acc.val[n]]]

\* Each token of the line names an entry; the block is the last one's.
Enter(acc, d, empty, val) ==
    LET named == {d.name} \cup ToSet(d.args)
        last == IF d.args = <<>> THEN d.name ELSE d.args[Len(d.args)]
    IN  [acc EXCEPT !.val = [n \in DOMAIN acc.val \cup named |->
                               IF n = last THEN val ELSE IF n \in named THEN empty ELSE acc.val[n]]]

\* A type without fields stands for all its fields.
TypesDirective(acc, d) ==
    IF d.name \in DOMAIN acc.val THEN Fail(acc) ELSE Add(acc, d.name, ToSet(d.args))

\* No types at all stand for all types, also when the braces are empty: an
\* empty map is left out of the adapted configuration.
NewRule == [err |-> FALSE, types |-> <<>>, max_age |-> 0, swr |-> 0, varies |-> {}]

RuleDirective(r, d) ==
    CASE d.name = "types" ->
           LET types == Parse(TypesDirective, Nothing, d.block)
           IN  [r EXCEPT !.err = types.err, !.types = types.val]
      [] d.name \in {"max_age", "swr"} /\ Takes(d, DOMAIN Duration) ->
           [r EXCEPT ![d.name] = Duration[Arg(d)]]
      [] d.name = "varies" /\ TakesSome(d) ->
           [r EXCEPT !.varies = ToSet(d.args)]
      [] OTHER -> Fail(r)

RulesDirective(acc, d) ==
    LET rule == Parse(RuleDirective, NewRule, d.block)
    IN  IF rule.err THEN Fail(acc) ELSE Enter(acc, d, NewRule, rule)

NewVary == [err |-> FALSE, headers |-> {}, cookies |-> {}]

VaryDirective(v, d) ==
    IF d.name \in {"headers", "cookies"} /\ TakesSome(d)
    THEN [v EXCEPT ![d.name] = ToSet(d.args)]
    ELSE Fail(v)

VariesDirective(acc, d) ==
    LET vary == Parse(VaryDirective, NewVary, d.block)
    IN  IF vary.err THEN Fail(acc) ELSE Enter(acc, d, NewVary, vary)

\* Every type gets the same map of fields, to which each line adds its own.
TypeKeysDirective(acc, d) ==
    IF ~TakesSome(d) THEN Fail(acc)
    ELSE LET fields == ToSet(d.args) \cup UNION {acc.val[t] : t \in DOMAIN acc.val}
         IN  [acc EXCEPT !.val = [t \in DOMAIN acc.val \cup {d.name} |-> fields]]

NewCaching ==
    [err |-> FALSE, enabled |-> TRUE, store_dsn |-> "", rules |-> <<>>,
     varies |-> <<>>, type_keys |-> <<>>,
     auto_invalidate_cache |-> FALSE, debug_headers |-> FALSE]

\* Mutant: another block of rules or varies adds to the last one.
CachingDirectiveAdding(c, d) ==
    LET part(parsed) == [c EXCEPT !.err = parsed.err, ![d.name] = parsed.val @@ @]
    IN  CASE /\ d.name \in {"enabled", "auto_invalidate_cache", "debug_headers"}
             /\ Takes(d, DOMAIN Truth) ->
               [c EXCEPT ![d.name] = Truth[Arg(d)]]
          [] d.name = "store_dsn" /\ Takes(d, DOMAIN Dsn) ->
               [c EXCEPT !.store_dsn = Arg(d)]
          [] d.name = "rules" -> part(Parse(RulesDirective, Nothing, d.block))
          [] d.name = "varies" -> part(Parse(VariesDirective, Nothing, d.block))
          [] d.name = "type_keys" -> part(Parse(TypeKeysDirective, Nothing, d.block))
          [] OTHER -> Fail(c)

CachingDirective(c, d) ==
    LET part(parsed) == [c EXCEPT !.err = parsed.err, ![d.name] = parsed.val]
    IN  CASE /\ d.name \in {"enabled", "auto_invalidate_cache", "debug_headers"}
             /\ Takes(d, DOMAIN Truth) ->
               [c EXCEPT ![d.name] = Truth[Arg(d)]]
          [] d.name = "store_dsn" /\ Takes(d, DOMAIN Dsn) ->
               [c EXCEPT !.store_dsn = Arg(d)]
          [] d.name = "rules" -> part(Parse(RulesDirective, Nothing, d.block))
          [] d.name = "varies" -> part(Parse(VariesDirective, Nothing, d.block))
          [] d.name = "type_keys" -> part(Parse(TypeKeysDirective, Nothing, d.block))
          [] OTHER -> Fail(c)

-----------------------------------------------------------------------------
NewHandler ==
    [err |-> FALSE, upstream |-> "", reverse_proxy |-> <<>>,
     fetch_schema_interval |-> 0, fetch_schema_timeout |-> 0, fetch_schema_header |-> <<>>,
     disabled_introspection |-> FALSE, disabled_playgrounds |-> FALSE,
     complexity |-> {}, caching |-> {}, cors_origins |-> {}, cors_allowed_headers |-> {}]

\* The whole line is handed to the reverse proxy, which takes what follows the
\* URL for further upstreams and the block for its options.
UpstreamDirective(h, d) ==
    IF \/ h.upstream # "" \/ d.args = <<>>
       \/ Arg(d) \notin Urls \/ ~(ToSet(Tail(d.args)) \subseteq Addresses)
       \/ \E o \in ToSet(d.block) : o.name \notin ProxyOptions
    THEN Fail(h)
    ELSE [h EXCEPT !.upstream = Arg(d), !.reverse_proxy = d.args]

\* A block that is disabled leaves nothing behind, so another may follow it.
OptionalBlock(h, d, parsed) ==
    IF h[d.name] # {} \/ parsed.err THEN Fail(h)
    ELSE IF parsed.enabled THEN [h EXCEPT ![d.name] = {parsed}]
    ELSE h

HandlerDirective(h, d) ==
    CASE d.name = "upstream" -> UpstreamDirective(h, d)
      [] d.name = "complexity" ->
           OptionalBlock(h, d, Parse(ComplexityDirective, NewComplexity, d.block))
      [] d.name = "caching" ->
           OptionalBlock(h, d, Parse(CachingDirective, NewCaching, d.block))
      [] /\ d.name \in {"fetch_schema_interval", "fetch_schema_timeout"}
         /\ Takes(d, DOMAIN Duration) ->
           [h EXCEPT ![d.name] = Duration[Arg(d)]]
      [] d.name \in {"disabled_introspection", "disabled_playgrounds"} /\ Takes(d, DOMAIN Truth) ->
           [h EXCEPT ![d.name] = Truth[Arg(d)]]
      [] d.name = "fetch_schema_header" /\ TakesSome(d) /\ Len(d.args) = 2 ->
           [h EXCEPT !.fetch_schema_header = Append(@, d.args)]
      [] d.name \in {"cors_origins", "cors_allowed_headers"} /\ TakesSome(d) ->
           [h EXCEPT ![d.name] = ToSet(d.args)]
      [] OTHER -> Fail(h)

parseCaddyfile(file) ==
    LET h == Parse(HandlerDirective, NewHandler, file)
    IN  IF h.upstream = "" THEN Fail(h) ELSE h

-----------------------------------------------------------------------------
DefaultTimeout == 30

\* The placeholders in a DSN are replaced, which may leave nothing.
StoreDsn(token) ==
    LET dsn == IF token \in DOMAIN Replaced THEN Replaced[token] ELSE token
    IN  IF dsn = "" THEN DefaultDsn ELSE dsn

\* Provision's defaults for what the file leaves out.
Defaulted(h) ==
    [h EXCEPT !.fetch_schema_timeout = IF @ = 0 THEN DefaultTimeout ELSE @,
              !.caching = {[c EXCEPT !.store_dsn = StoreDsn(@)] : c \in @}]

\* Validate: a rule's varies are configured and its max_age is positive.
Valid(h) ==
    \A c \in h.caching : \A r \in DOMAIN c.rules :
        c.rules[r].varies \subseteq DOMAIN c.varies /\ c.rules[r].max_age > 0

\* NewCachingStore: freecache must be told its size; redis may be told its db.
FactoryAccepts(dsn) ==
    CASE Dsn[dsn].scheme = "freecache" -> Dsn[dsn].param = "number"
      [] Dsn[dsn].scheme = "redis" -> Dsn[dsn].param \in {"none", "number"}
      [] OTHER -> FALSE
=============================================================================
