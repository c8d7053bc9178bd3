---------------------------- MODULE MCLifecycle ----------------------------
(***************************************************************************)
(* Blocks for the lifecycle: seven that go different ways through it, and  *)
(* sixteen whose directives disagree with one another.                     *)
(***************************************************************************)
EXTENDS Lifecycle

CONSTANTS h1, h2, h3, s1, s2

D(name, args) == [name |-> name, args |-> args, block |-> <<>>]
B(name, block) == [name |-> name, args |-> <<>>, block |-> block]
N(name, args, block) == [name |-> name, args |-> args, block |-> block]

MCNumeral == ("0" :> 0) @@ ("1" :> 1) @@ ("5" :> 5)
MCDuration == ("0" :> 0) @@ ("1s" :> 1) @@ ("5s" :> 5) @@ ("-1s" :> -1)
MCUrls == {"http://a"}
MCAddresses == {"http://b"}
MCDefaultDsn == "freecache://?cache_size=104857600"
MCDsn ==
    MCDefaultDsn :> [scheme |-> "freecache", param |-> "number"]
    @@ "freecache://" :> [scheme |-> "freecache", param |-> "none"]
    @@ "redis://?db=x" :> [scheme |-> "redis", param |-> "text"]
    @@ "memory://" :> [scheme |-> "memory", param |-> "none"]
    @@ "redis://r" :> [scheme |-> "redis", param |-> "none"]
    @@ "{env.STORE}" :> [scheme |-> "none", param |-> "none"]
    @@ "{env.UNSET}" :> [scheme |-> "none", param |-> "none"]
MCReplaced == "{env.STORE}" :> "redis://r" @@ "{env.UNSET}" :> ""
MCProxyOptions == {"lb_policy"}

Upstream == D("upstream", <<"http://a">>)
MaxAge == D("max_age", <<"5s">>)
Rule(name, block) == B(name, block)
Rules(block) == B("rules", block)
UserRule == Rule("users", <<MaxAge, B("types", <<D("User", <<"name">>)>>)>>)
Cached(block) == B("caching", <<Rules(<<UserRule>>)>> \o block)
Store(dsn) == D("store_dsn", <<dsn>>)
Every(n) == D("fetch_schema_interval", <<n>>)

\* The seven: name, block.
Plain     == <<Upstream>>
Periodic  == <<Upstream, Every("5s"), Cached(<<>>)>>
Explicit  == <<Cached(<<Store(MCDefaultDsn)>>), Upstream>>
Remote    == <<Upstream, Cached(<<Store("{env.STORE}")>>)>>
Sizeless  == <<Upstream, Cached(<<Store("freecache://")>>)>>
Ageless   == <<Upstream, Every("5s"), B("caching", <<Rules(<<B("users", <<D("swr", <<"1s">>)>>)>>)>>)>>
Backwards == <<Upstream, Every("-1s")>>
Paths == <<Plain, Periodic, Explicit, Remote, Sizeless, Ageless, Backwards>>

\* Directives that override, add to or exclude one another.
Introspection(word) == D("disabled_introspection", <<word>>)
Off == D("enabled", <<"false">>)
Who(block) == B("varies", <<B("who", block)>>)
Vary(name) == B(name, <<D("headers", <<"user-agent">>)>>)
All(block) == Rule("all", <<MaxAge>> \o block)
ByWho == All(<<D("varies", <<"who">>)>>)

Disagreements ==
    <<  <<Upstream, Introspection("true"), Every("5s"), Introspection("false"), Every("0"),
          D("fetch_schema_timeout", <<"5s">>), D("cors_origins", <<"a">>), D("cors_origins", <<"b", "c">>)>>,
        <<Upstream, B("complexity", <<D("max_depth", <<"5">>), Off>>),
                    B("complexity", <<D("node_count_limit", <<"5">>), D("max_depth", <<"5">>), D("max_depth", <<"1">>)>>)>>,
        <<Upstream, B("caching", <<Off, Rules(<<ByWho>>)>>), B("caching", <<Rules(<<All(<<>>)>>)>>)>>,
        <<Upstream, B("caching", <<Rules(<<UserRule, ByWho>>), Rules(<<All(<<>>), UserRule, All(<<D("swr", <<"1s">>)>>)>>)>>)>>,
        <<Upstream, B("caching", <<Rules(<<ByWho>>), Who(<<D("cookies", <<"session">>), D("headers", <<"x-user">>)>>),
                                   B("type_keys", <<D("User", <<"name">>), D("Book", <<"title">>)>>)>>)>>,
        <<Upstream, B("caching", <<Rules(<<ByWho>>), Who(<<D("headers", <<"x-user">>)>>), B("varies", <<>>)>>)>>,
        <<Upstream, Cached(<<Store("redis://?db=x"), Store("memory://")>>)>>,
        <<Upstream, Cached(<<>>), Cached(<<>>)>>,
        <<Upstream, Cached(<<>>), Introspection("maybe")>>,
        <<Upstream, B("caching", <<Rules(<<All(<<B("types", <<D("User", <<>>), D("User", <<"name">>)>>)>>)>>)>>)>>,
        <<Upstream, Every("5s"), Upstream>>,
        <<Every("5s"), Cached(<<>>)>>,
        <<D("upstream", <<"http://a", "http://b">>), Cached(<<Store("{env.UNSET}")>>)>>,
        <<Upstream, B("caching", <<Rules(<<N("all", <<"users">>, <<MaxAge, D("varies", <<"who">>)>>), All(<<>>)>>),
                                   B("varies", <<Vary("agent"), N("who", <<"agent", "session">>, <<D("cookies", <<"session">>)>>)>>)>>)>>,
        <<Upstream, B("complexity", <<D("max_depth", <<"5s">>)>>)>>,
        <<Upstream, N("fetch_schema_interval", <<"5s">>, <<Upstream>>)>> >>

MCContent == Paths \o Disagreements
MCFiles == 1..Len(Paths) + Len(Disagreements)

\* All directives of a block and of the blocks in it.
RECURSIVE LinesOf(_)
LinesOf(block) == ToSet(block) \cup UNION {LinesOf(d.block) : d \in ToSet(block)}

MCLines == UNION {LinesOf(MCContent[f]) : f \in MCFiles}

\* Each alone, Periodic before Explicit, Remote before Ageless.
MCConfigs == {<<f>> : f \in MCFiles} \cup {<<2, 3>>, <<4, 6>>}
=============================================================================
