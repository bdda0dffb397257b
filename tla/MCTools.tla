------------------------------- MODULE MCTools -------------------------------
(* The maintenance scripts, model-checked: a campaign works either on the    *)
(* U-Boot patch series or on the services' sources.  The scripts of one      *)
(* campaign touch no file of the other, so the two state spaces add up.      *)
EXTENDS PatchSeries, ServiceEdits

VARIABLE campaign

(* The files of the campaign that does not run.                              *)
IdleMram == [errors |-> <<"io", "custom">>, mount |-> "device",
             subsystem |-> "whole", config |-> 0]
IdleFram == [table |-> "older"]
IdleImage == [fragment |-> 0]

MCInit ==
  \/ /\ campaign = "series" /\ Init
     /\ mram = IdleMram /\ fram = IdleFram /\ image = IdleImage
     /\ editor = "none" /\ edits = <<>> /\ editRuns = 0 /\ editsEnded = "none"
  \/ /\ campaign = "services" /\ EditsInit
     /\ out = <<>> /\ mirror = <<>> /\ wsl = FALSE
     /\ tree = [dual |-> FALSE, header |-> FALSE, call |-> FALSE]
     /\ trusted = FALSE
     /\ script = "none" /\ plan = <<>> /\ runs = 0
     /\ ended = [by |-> "none", ok |-> TRUE]

SeriesStep == campaign = "series" /\ Next /\ UNCHANGED <<campaign, editsVars>>
ServiceStep == campaign = "services" /\ EditsNext /\ UNCHANGED <<campaign, vars>>

MCNext == SeriesStep \/ ServiceStep

MCSpec == MCInit /\ [][MCNext]_<<campaign, vars, editsVars>>

=============================================================================
