------------------------------ MODULE MCReplay ------------------------------
EXTENDS Replay

MCIds == 1..4

\* All pairs of different nodes, and one node that may be its own input.
MCLinks == {l \in MCIds \X MCIds : l[1] # l[2]} \cup {<<3, 3>>}
=============================================================================
