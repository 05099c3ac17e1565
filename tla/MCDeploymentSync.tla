--------------------------- MODULE MCDeploymentSync ---------------------------
(* Values for model checking DeploymentSync. *)
EXTENDS DeploymentSync, TLC

CONSTANTS w1, w2, image1, image2

OneWorker == {w1}

TwoWorkers == {w1, w2}

TwoImages == {image1, image2}

(* Workers and images are interchangeable; used by safety runs only. *)
Symmetry == Permutations(Workers) \cup Permutations(Images)

===============================================================================
