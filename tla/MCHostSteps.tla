----------------------------- MODULE MCHostSteps -----------------------------
(* An instance of HostSteps small enough for TLC. *)
EXTENDS HostSteps

Show == <<"d1", "show">>
Other == <<"d2", "show">>
Script == <<"d1", "script">>  \* label of every script that begins with this line

Said(body, volatile) == [text |-> Text(body, volatile, FALSE, FALSE), json |-> Object([command |-> "up"])]
Json(json) == [text |-> Nothing, json |-> json]
Failed == Said("", "")
Made(id, name, content) == [step |-> id, name |-> name, text |-> content.text, json |-> content.json]

OnlyA(value) == Object([a |-> value])
PreContents ==
  {Said("up", "1"), Failed, Json(OnlyA(Null)), Json(OnlyA("up")), Json(List(<<"up">>))}
PostContents ==
  {Said("up", "2"), Failed, Json(Object([b |-> "up", c |-> "up"])),
   Json(Object([a |-> "up", b |-> "up"])), Json(List(<<"up", Nested>>)),
   [text |-> Text("up", "1", TRUE, TRUE), json |-> Nothing]}

MCArtifacts ==
  {Made("pre", Show, c) : c \in PreContents} \cup {Made("post", Show, c) : c \in PostContents}
  \cup {Made("pre", Other, Said("up", "")), Made("pre", Other, Failed)}
  \cup {Made("pre", Script, Said("up", "")), Made("post", Script, Said("up", "")), Made("post", Script, Said("down", ""))}

Compare(mode, select, names, ignored, patterns, pre_, post_) ==
  [mode |-> mode, select |-> select, names |-> names, ignored |-> ignored, patterns |-> patterns,
   pre |-> pre_, post |-> post_]
Comparing ==
  {Compare(mode, "all", {}, {}, <<"invalid", "volatile">>, "pre", "post") : mode \in Modes}
  \cup {Compare("exact", "all", {}, {}, <<"other", "other", "volatile">>, "pre", "post")}
  \cup {Compare(mode, "glob", {Show}, {"b"}, <<>>, "pre", "post") : mode \in {"subset", "superset"}}
  \cup {Compare("exact", "one", {Show}, {"b"}, <<>>, "pre", "post")}
  \cup {Compare("changed", "all", {}, {}, <<>>, "pre", "own"), Compare("changed", "all", {}, {}, <<>>, "", "post")}

Assert(ds, command, named, operator) ==
  [devices |-> ds, command |-> command, named |-> named, operator |-> operator, expected |-> "up", pre |-> "pre"]
Asserting ==
  {Assert(ds, "show", <<>>, operator) :
     ds \in {<<"d1", "">>, <<"d1", "d2">>}, operator \in {"contains", "ne"}}
  \cup {Assert(<<"d2">>, command, <<Other>>, "eq") : command \in {"show", "script2", ""}}
  \cup {Assert(<<>>, command, <<>>, "eq") : command \in {"show", ""}}

Device(id, host, ips, loopback, hostname) ==
  [id |-> id, host |-> host, ips |-> ips, loopback |-> loopback, hostname |-> hostname]
Both1 == Device("i1", "a1", <<"p1", "p2">>, "l1", "n1")
ByRole ==
  [core |-> {Both1, Device("i2", "a2", <<>>, "", "")}, edge |-> {Both1, Device("i3", "", <<"">>, "", "n3")}]
Selector(type, role, ips) == [type |-> type, role |-> role, ips |-> ips]
Monitoring ==
  {[selectors |-> ss, byRole |-> ByRole, roles |-> rs, kind |-> kind, check |-> check] :
     ss \in {{}, {Selector("role", "core", {}), Selector("role", "edge", {})},
             {Selector("ip", "", {"a1", ""}), Selector("ip", "", {"a1", "a9"}), Selector("role", "edge", {})},
             {Selector("tag", "", {})}},
     rs \in {{}, {"core", "edge"}}, kind \in {"mgmt", "primary", "loopback", "custom", "unknown"}, check \in {"registered", "unknown"}}

Step1(h, c) == [handler |-> h, config |-> c]
MCFlows ==
  {<<Step1("compare", c)>> : c \in Comparing} \cup {<<Step1("assert", c)>> : c \in Asserting}
  \cup {<<Step1("start", c), Step1("stop", {})>> : c \in Monitoring}
  \cup {<<Step1("connectivity", c), Step1("stop", {})>> : c \in {m \in Monitoring : m.kind = "mgmt"}}
  \cup {<<Step1("sync", {}), Step1("sync", {}), Step1("notify", {})>>}

=============================================================================
