-------------------------------- MODULE MCPanes --------------------------------
(* A command that changes the store runs beside no other of these, and beside  *)
(* everything else: the clipboard, calls of the core, the copying of the list. *)
(* Any command may follow another before its result is handled.                *)
EXTENDS Screen
MCOverlaps == {{k, l} : k \in {"clipboard", "other"}, l \in Kinds}
MCAll == {{k, l} : k \in Kinds, l \in Kinds}
\* One below the minimum; the minimum, drawn stacked; the smallest grid; one wide
\* enough for a grid, and too low; an ordinary one.
MCWindow(w, h) == [width |-> w, height |-> h]
MCWindows == {MCWindow(0, 0), MCWindow(40, 10), MCWindow(72, 14), MCWindow(73, 13),
              MCWindow(80, 24)}
MCSymmetry == Permutations(Ids)
================================================================================
