---------------------------- MODULE MCGpuInterrupts ----------------------------
(* Three packets that interrupt one CPU or two: several interrupts queue up    *)
(* behind a spinning handler, and the queue runs empty between packets.        *)
EXTENDS GpuInterrupts

MCCpus  == {0, 2}
MCMasks == {{2}, {0, 2}}
==============================================================================
