----------------------------- MODULE MCAlertOutbox -----------------------------
(* Values for model checking AlertOutbox. *)
EXTENDS AlertOutbox

CONSTANTS w1, w2, operators

OneWorker == {w1}

TwoWorkers == {w1, w2}

OnePolicy == {operators}

===============================================================================
