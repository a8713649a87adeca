------------------------------- MODULE MCStudio -------------------------------
(* One tab, two forms that are submitted, an event of earlier days, two days   *)
(* with one pair of times: a new event, and an edit or a payment, or two edits *)
(* of a form that was left and opened again, each with a picture.              *)
EXTENDS Studio
CONSTANTS left, none
MCTabs == {left}
MCDays == {0, 1}
MCHours == {<<0, 1>>}
=============================================================================
