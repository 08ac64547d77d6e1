----------------------------- MODULE MCVersions -----------------------------
(***************************************************************************)
(* Two devices with clocks and times that differ; three devices.           *)
(***************************************************************************)
EXTENDS Versions
MCSetups == {[group |-> {1, 2}, bodies |-> {"a", "b"}, clocks |-> {1, 4}, times |-> {1, 2}, edits |-> 3],
             [group |-> {1, 2, 3}, bodies |-> {"a"}, clocks |-> {1}, times |-> {1}, edits |-> 3],
             [group |-> {1, 2, 3}, bodies |-> {"a", "b"}, clocks |-> {1, 3}, times |-> {1}, edits |-> 2]}
=============================================================================
