------------------------- MODULE MCCampaignContent -------------------------
(* Values of the constants of CampaignContent for TLC. *)
EXTENDS CampaignContent

Row(type, ics, on, status) ==
  [html |-> 1, mime |-> 2, type |-> type, ics |-> ics, on |-> on,
   info |-> 3, status |-> status, ver |-> 1]

MCRows == {Row("html", NoIcs, FALSE, "draft"), Row("html", Built(4), TRUE, "draft"),
           Row("raw_mime", Opaque(5), FALSE, "completed")}

MCBudgets == {[row |-> 4, files |-> 0, outside |-> 0],
              [row |-> 3, files |-> 0, outside |-> 1],
              [row |-> 0, files |-> 3, outside |-> 1]}
=============================================================================
