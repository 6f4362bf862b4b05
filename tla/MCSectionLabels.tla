--------------------------- MODULE MCSectionLabels ---------------------------
(* SectionLabels on the instance of MCCarrier. *)
EXTENDS SectionLabels, MCCarrier
=============================================================================
