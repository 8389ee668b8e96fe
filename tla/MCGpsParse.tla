----------------------------- MODULE MCGpsParse -----------------------------
(* Instances of GpsParse for TLC: frames of up to three lines, with         *)
(* garbage, cut and interrupted sentences of different lengths.             *)
EXTENDS GpsParse

Rmc(lat, ns, lon, ew, check) ==
    [id |-> "RMC", check |-> check, lat |-> lat, ns |-> ns, lon |-> lon, ew |-> ew]
Of(id, check) == [id |-> id, check |-> check]

Begin(s) == [c |-> "$", s |-> s]
X == [c |-> "x"]
N == [c |-> "n"]

NorthWest == Rmc(1, 1, 2, -1, "good")
South     == Rmc(3, -1, 4, 1, "good")

Garbage == { <<X>>, <<X, X, X, N>> }
Line == { <<Begin(NorthWest), X, N>>, <<Begin(South), N>>,
          <<Begin(Rmc(5, 1, 6, 1, "open")), N>>,
          <<Begin(Of("GSA", "good")), X, N>>,
          <<Begin(Of("GSV", "good")), N>>,
          <<Begin(Of("GSA", "open")), Begin(NorthWest), N>> }
Cut  == { <<Begin(South)>>, <<>> }

Frames == { a \o b \o c : a \in Garbage \cup {<<>>}, b \in Line \cup {<<>>},
                         c \in Line \cup Cut \cup {<<X, N>>} }
=============================================================================
