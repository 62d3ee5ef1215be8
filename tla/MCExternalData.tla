--------------------------- MODULE MCExternalData ---------------------------
EXTENDS ExternalData

\* The test shares one file with its fixture; a second test is independent.
SomeData == "fixture" :> <<"a">> @@ "test1" :> <<"a", "b">> @@ "test2" :> <<"b">>

Link(kind, name, sum) == [kind |-> kind, name |-> name, sum |-> sum]
None == Link("none", "", "")
Bad == Link("bad", "", "")
Static == Link("static", "x", "x")
WrongSum == Link("static", "x", "y")
Artifact == Link("artifact", "z", "")

SomeLinks == {"a" :> p[1] @@ "b" :> p[2] :
                p \in {<<Static, WrongSum>>, <<Artifact, Artifact>>,
                       <<Static, Artifact>>, <<None, Bad>>}}

\* Either server can have the lower score.
SomeScore(u, s) == IF (u[1] = "R1") = (s = "s1") THEN 0 ELSE 1
=============================================================================
