----------------------------- MODULE MCFatDir -----------------------------
(* FatDir with three names, two of which have the same short name, and a root
   directory that is empty, has a hole and old slots behind its end mark, or
   fills its cluster and has no end mark. *)
EXTENDS FatDir
MCPaths == {<<n>> : n \in NAMES} \cup {<<"lone", n>> : n \in NAMES}
MCLfns(n) == IF n = "long" THEN 2 ELSE 1
MCShort(n) == IF n \in {"long", "lone"} THEN "LON" ELSE "TXT"
MCRoots ==
  {[i \in 1 .. SLOTS |-> EndMark],
   [i \in 1 .. 2 * SLOTS |-> CASE i \in 1 .. 3 -> Sfn(<<"AAA", "BBB", "CCC">>[i], File)
                              [] i = 4 -> Unused [] i = 5 -> EndMark
                              [] OTHER -> Sfn("LON", File)],
   [i \in 1 .. SLOTS |-> IF i = SLOTS THEN Sfn("TXT", File) ELSE Unused]}
=============================================================================
