----------------------------- MODULE MCGthreads ------------------------------
EXTENDS Gthreads

\* three jobs under PSRTF, of one second and of three
Lasting(seconds) == [runtime |-> seconds, priority |-> 1, length |-> 2 * seconds]
MCPrograms == [scheme : {"PSRTF"}, plan : [1..3 -> {Lasting(1), Lasting(3)}]]
==============================================================================
