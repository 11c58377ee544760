------------------------------ MODULE MCMemory ------------------------------
(* Instances of Memory for TLC.  The default setting names one root, the    *)
(* other one that root and another, whose directory others rearrange.       *)
EXTENDS Memory

MCKeys == {"memory.roots", "vitals.intervalMs", "packages.queryCommand", "ui.reduceMotion"}
MCPosition == [k \in MCKeys |->
  CASE k = "memory.roots" -> 9 [] k = "vitals.intervalMs" -> 15
    [] k = "packages.queryCommand" -> 16 [] k = "ui.reduceMotion" -> 18]

\* A configured file that was also edited by hand, and not well.
MCFiles == {[k \in MCKeys |-> CASE k = "memory.roots" -> "other"
                              [] k = "ui.reduceMotion" -> "absent" [] OTHER -> "bad"]}

MCRootMap == [v \in {"default", "other"} |->
  IF v = "default" THEN [workspace |-> "ws"] ELSE [notes |-> "nb", todo |-> "ws"]]

E(p, n) == [place |-> p, name |-> n]
MCTree == {E("ws", "a"), E("nb", "a"), E("nb", "link")}
MCUnder == [f \in MCTree |-> {f.place}]

\* The link leads to the file of its root or out of it, or that file is itself
\* exchanged for a link that leads out.
To(f, g) == [h \in MCTree |-> IF h = f THEN g ELSE h]
MCFound == To(E("nb", "link"), E("nb", "a"))
MCLayouts == {MCFound, To(E("nb", "link"), E("ws", "a")), [h \in MCTree |-> E("ws", "a")]}
=============================================================================
