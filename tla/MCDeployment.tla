---------------------------- MODULE MCDeployment ----------------------------
(* Two runs of seeker_model_init on one version, and one on another.        *)
EXTENDS Deployment, TLC

MCVersionOf == "t1" :> "v1" @@ "t2" :> "v1" @@ "t3" :> "v2"

\* Matches differ in nothing but their names.
MCSymmetry == Permutations(Names)
=============================================================================
