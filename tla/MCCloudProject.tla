---------------------------- MODULE MCCloudProject ----------------------------
EXTENDS CloudProject

(* h1 and h2 differ in the last digit, h3 from them in the one before; h4  *)
(* is as close to h1 as h3, and alone in a zone that is called like the    *)
(* switch of h3, if that id is cut to three digits.                        *)
MCHostId == ("h1" :> <<0, 0, 0, 0>> @@ "h2" :> <<0, 0, 0, 1>>
             @@ "h3" :> <<0, 0, 1, 0>> @@ "h4" :> <<0, 0, 2, 0>>)
Nova == <<16>>
Gpu == <<0, 0, 1>>
MCMaster == <<17>>
MCAz == ("h1" :> Nova @@ "h2" :> Nova @@ "h3" :> Nova @@ "h4" :> Gpu)
=============================================================================
