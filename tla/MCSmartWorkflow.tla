-------------------------- MODULE MCSmartWorkflow --------------------------
(***************************************************************************)
(* Model checking of SmartWorkflow.                                        *)
(***************************************************************************)
EXTENDS SmartWorkflow
CONSTANTS w1, w2

OneWorkflow  == {w1}
TwoWorkflows == {w1, w2}
NoStep       == {}
FirstStep    == {1}

\* A lost worker meets a second call, another import or a dropped key, not two of them.
Disturbances == Cardinality({c \in Calls \ {1} : ~ At(c, "idle")})
                    + Cardinality({s \in Contended : rival[s] # "absent"}) + drops
LossIsBounded == lostCount = 1 => Disturbances <= 1

\* For the running key it is enough that it expires itself.
KeyExpires == drops' # drops => runningKey' # runningKey
=============================================================================
