------------------------------ MODULE MCBundle ------------------------------
(* The bundles of one container with up to three mounts, of the two          *)
(* containers of a pod, and of a container of every version.                 *)
EXTENDS Bundle

MCIgnored == {<<"proc">>}

SpecOrder == <<"process", "root", "mounts", "annotations">>
Orders == {SpecOrder, <<"annotations", "process", "root", "mounts">>,
           <<"process", "root", "annotations", "mounts">>}

B(version, order, mounts, anns) ==
  [version |-> version, sections |-> order, mounts |-> mounts, annotations |-> anns,
   uid |-> 1]

M(dir, src) == [dir |-> dir, src |-> src]
A(key, value) == [key |-> key, value |-> value]

Dirs == {<<"a">>, <<"a", "b">>, <<"proc">>}
Sources == {"dir", "file", "gone", "name", "untyped"}
Pairs == UNION {[1..n -> {M(d, s) : d \in Dirs, s \in Sources}] : n \in 0..2}
Triples == [1..3 -> {M(d, s) : d \in {<<"a">>, <<"a", "b">>, <<"c">>}, s \in {"dir", "file"}}]

One(b) == "box" :> b
Singles == {One(B(Supported, SpecOrder, ms, <<A("other", "x")>>)) :
              ms \in Pairs \cup Triples}

SandboxAnns == {<<A("type", "sandbox")>>, <<A("type", "sandbox"), A("name", "box")>>,
                <<A("name", "box"), A("type", "sandbox")>>}
MemberAnns == {<<A("type", "container"), A("name", "box")>>,
               <<A("name", "box"), A("type", "container"), A("ocid", "x")>>}
StrayAnns == {<<A("type", "container")>>, <<A("ocid", "x"), A("name", Null)>>}

PodMounts == {<< >>, <<M(<<"a">>, "dir")>>, <<M(<<"a">>, "file")>>}
Strays == {One(B(Supported, o, ms, as)) :
             o \in Orders, ms \in PodMounts, as \in StrayAnns \cup SandboxAnns}
PodPairs == {"box" :> B(Supported, SpecOrder, m1, as1) @@ "web" :> B(Supported, SpecOrder, m2, as2) :
               m1 \in {<< >>, <<M(<<"a">>, "dir")>>},
               m2 \in {<< >>, <<M(<<"a">>, "dir")>>, <<M(<<"c">>, "file")>>},
               as1 \in {<<A("type", "sandbox"), A("name", "box")>>},
               as2 \in MemberAnns}

Tails(n) == UNION {[1..k -> {"-", "+", ".", "0", "1", "a"}] : k \in 0..n}
Versions ==
  {[major |-> 1, minor |-> 0, patch |-> <<"1">> \o t] : t \in Tails(3)}
  \cup {[major |-> j, minor |-> n, patch |-> <<d>> \o t] :
          j \in 1..2, n \in 0..1, d \in {"0", "1"}, t \in Tails(1)}
Versioned == {One(B(v, SpecOrder, << >>, << >>)) : v \in Versions}

MCScenarios == Singles \cup Strays \cup PodPairs \cup Versioned
=============================================================================
