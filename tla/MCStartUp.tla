------------------------------ MODULE MCStartUp ------------------------------
(* The two models of the kernel's start, one after the other in one run: the  *)
(* initialisation of the PS/2 controller with every combination of devices    *)
(* at the two ports, and, once that is done, how interrupts are served; the   *)
(* real-time clock at the second PIC is the device without a driver.  They    *)
(* share no state: every behaviour is one of QuietSpec and one of             *)
(* InterruptsSpec.                                                            *)
EXTENDS PS2Controller, Interrupts

StartUpInit == Init /\ InterruptsInit

StartUpNext == \/ Next /\ UNCHANGED interruptsVars
               \/ pc = "done" /\ InterruptsNext /\ UNCHANGED vars

\* What is assumed of the interrupts counts once they can happen; assumed before, it
\* would rule out an initialisation that does not end.
StartUpSpec == /\ StartUpInit
               /\ [][StartUpNext]_<<vars, interruptsVars>>
               /\ WF_vars(Next)
               /\ <>(pc = "done") => Fairness
==============================================================================
