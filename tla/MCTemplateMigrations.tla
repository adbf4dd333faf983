------------------------ MODULE MCTemplateMigrations ------------------------
(* Two pages in batches of one, so that a page left behind must be passed by *)
(* the offset and a page migrated must not.                                  *)
EXTENDS TemplateMigrations

CONSTANTS s1, s2, x, y, z, j1, j2

TwoPages == 1 .. 2
OneSlot == {s1}
TwoSlots == {s1, s2}
TwoValues == {x, y}
ThreeValues == {x, y, z}
TwoJobs == {j1, j2}
=============================================================================
