---------------------------- MODULE MCLabLifecycle ----------------------------
(* Small instances of LabLifecycle for TLC.                                *)
EXTENDS LabLifecycle

CONSTANTS a, b,     \* two VMs, whose names are also Arc names
          x,        \* an Arc name set through arc.resource_name
          small, large

Plain(s) == [arc |-> None, shape |-> s]
Arc(name, s) == [arc |-> name, shape |-> s]
Lab(da, db) == [v \in VM |-> IF v = a THEN da ELSE db]

(* Nothing; one VM under its own name; the same VM renamed in Azure and    *)
(* resized, beside another that shares its new name, which nothing in      *)
(* locals.tf refuses; a plain VM beside a VM that takes over the name.     *)
MCInventories == {
  Lab(None, None),
  Lab(Arc(a, small), None),
  Lab(Arc(x, large), Arc(x, small)),
  Lab(Plain(small), Arc(x, small)) }

(* Of these the hand-over alone: a VM that is resized as the other arrives.*)
MCHandOver == {
  Lab(None, None),
  Lab(Arc(a, small), None),
  Lab(Arc(x, large), Arc(x, small)) }

(* One VM: its own name, renamed in place, resized without Arc, gone.      *)
Only(d) == [v \in VM |-> d]

MCOneVM == { Only(None), Only(Arc(a, small)), Only(Arc(x, small)), Only(Plain(large)) }
===============================================================================
