-------------------------- MODULE MCResultPipeline --------------------------
(***************************************************************************)
(* Instances of ResultPipeline for TLC.                                    *)
(***************************************************************************)
EXTENDS ResultPipeline

Shape(required, phased, gated, limit, planner) ==
    [required : required, phased : phased, gated : gated,
     limit : {limit}, planner : {planner}]

\* Every shape of a slot, the daemon alone.
AllAlone == Shape(BOOLEAN, BOOLEAN, BOOLEAN, 0, FALSE)

\* The shape in which every mechanism is at work: with two faults, and with
\* the planner.
FullTwoFaults == Shape({TRUE}, {TRUE}, {TRUE}, 2, FALSE)
FullPlanner == Shape({TRUE}, {TRUE}, {TRUE}, 0, TRUE)

\* The planner, or two faults with the full shape, or one fault with a shape
\* that is short of one feature.
FaultsOrPlanner ==
    UNION {FullTwoFaults, FullPlanner,
           Shape({TRUE}, {TRUE}, {FALSE}, 1, FALSE),
           Shape({TRUE}, {FALSE}, {TRUE}, 1, FALSE),
           Shape({FALSE}, {TRUE}, {TRUE}, 1, FALSE)}

\* The shapes of an escalation: a required task, verified by the daemon.
RequiredAlone == Shape({TRUE}, BOOLEAN, {TRUE}, 0, FALSE)
=============================================================================
