------------------------------ MODULE KernelSim ------------------------------
(***************************************************************************)
(* main (src/KernelSim/src/KernelSim.cpp): getInput, then simColocation on *)
(* the graph it built.  The simulator is thus run on every graph that the  *)
(* loader can build from the traces of an instance.                        *)
(***************************************************************************)
EXTENDS GetInput, SimHistory

mainVars == <<inputVars, simVars, histVars>>

(* simColocation has not been called. *)
Idle ==
    /\ status = <<>> /\ time = <<>> /\ since = <<>>
    /\ runs = <<>> /\ served = <<>>
    /\ count = [t \in KernelTypes |-> 0]
    /\ k_sch = 0 /\ now = 0
    /\ loop = <<>> /\ ac = <<>> /\ rt = <<>>
    /\ outcome = "idle"

MainInit == InputInit /\ Idle

Load ==
    /\ InputNext
    /\ UNCHANGED <<simVars, histVars>>

(* getInput returned true *)
Call ==
    /\ loading = "true"
    /\ SimCall
    /\ HistCall
    /\ UNCHANGED inputVars

Simulate ==
    /\ SimStep
    /\ Record
    /\ UNCHANGED <<newApp, k_last, row, nrows, dropped, loading>>

MainNext == Load \/ Call \/ Simulate

MainSpec == MainInit /\ [][MainNext]_mainVars /\ WF_mainVars(Call \/ Simulate)
=============================================================================
