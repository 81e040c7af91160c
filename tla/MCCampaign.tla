----------------------------- MODULE MCCampaign -----------------------------
(* Constants of the model-checking runs of Campaign: excerpts of           *)
(* PRIMARY_CELLS and CELLS that keep every family and the order of the     *)
(* cells within one.                                                       *)
EXTENDS CampaignProperties

Cell(id, family, rate, config) ==
    [id |-> id, family |-> family, rate |-> rate, config |-> config]

FinalCells == {Cell(7, "F11", 1, "C8"), Cell(17, "crash", 0, "C7"), Cell(23, "F0", 0, "C8")}
RateCells == {Cell(102, "F11", 1, "C3"), Cell(104, "F11", 2, "C3"), Cell(106, "F5", 1, "C5"),
              Cell(110, "F12", 1, "C6")}
(* with the comparator of R02                                              *)
ComparedCells == RateCells \cup {Cell(101, "F11", 1, "C1")}
ShortPilot == {Cell(201, "F11", 1, "C3"), Cell(202, "F5", 1, "C5"), Cell(203, "crash", 0, "C7")}
ShortPhase == {Cell(301, "F0", 0, "BASELINE"), Cell(302, "F0", 0, "RESILIENT"),
               Cell(303, "F11", 1, "BASELINE"), Cell(304, "F11", 1, "RESILIENT")}

(* the cells whose compensation has to be tried twice                      *)
FinalCompensation == {Cell(14, "F12", 1, "C6"), Cell(15, "F12", 1, "C8")}
RateCompensation == {Cell(110, "F12", 1, "C6"), Cell(112, "F12", 2, "C6")}
=============================================================================
