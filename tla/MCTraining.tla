----------------------------- MODULE MCTraining -----------------------------
(***************************************************************************)
(* The training front ends for TLC: gluon's Trainer, Module and            *)
(* BucketingModule, and the splitting of a batch.  They do not interact:   *)
(* one behaviour drives one of them, the one that is active.               *)
(***************************************************************************)
EXTENDS Trainer, ModuleAPI, Slices

CONSTANTS c1, c2, b1, b2
VARIABLE active

TConf(kv, ctx, unshaped, reqs, timed, partial, reinits) ==
    [kv |-> kv, ctx |-> ctx, deferred |-> unshaped, reqs |-> reqs,
     timed |-> timed, partial |-> partial, reinit |-> reinits]

UsualTrainers ==
    {TConf("none", <<c1>>, {2}, {"write", "null"}, TRUE, FALSE, TRUE),
     TConf("grads", <<c1, c2>>, {}, {"write", "null"}, FALSE, FALSE, TRUE),
     TConf("weights", <<c1, c2>>, {}, {"write", "add"}, TRUE, TRUE, FALSE)}

\* An optimizer that uses its update count, on replicas the trainer updates.
TimedReplicas == {TConf("grads", <<c1, c2>>, {}, {}, TRUE, FALSE, FALSE)}

MConf(bucketing, kv, setting, rebinding, reiniting, interrupting, epochs) ==
    [bucketing |-> bucketing, kv |-> kv, sets |-> setting, rebinds |-> rebinding,
     reinits |-> reiniting, interrupts |-> interrupting,
     num_epoch |-> epochs]

UsualModules ==
    {MConf(FALSE, "none", TRUE, TRUE, FALSE, FALSE, 2),
     MConf(FALSE, "weights", FALSE, TRUE, TRUE, TRUE, 2),
     MConf(FALSE, "none", FALSE, FALSE, FALSE, FALSE, 3),
     MConf(FALSE, "grads", TRUE, TRUE, TRUE, TRUE, 2),
     MConf(TRUE, "weights", FALSE, TRUE, TRUE, TRUE, 2),
     MConf(TRUE, "none", TRUE, TRUE, TRUE, TRUE, 2)}

\* Parameters are set though the kvstore has the weights.
SetOnKVStore == {MConf(FALSE, "weights", TRUE, FALSE, FALSE, FALSE, 2)}

OneOf(S) == CHOOSE x \in S : TRUE

Init ==
    /\ active \in {"trainer", "module", "slices"}
    /\ TrainerInit /\ (active = "trainer" \/ tconf = OneOf(TrainerConfs))
    /\ ModuleInit /\ (active = "module" \/ mconf = OneOf(ModuleConfs))
    /\ SlicesInit /\ (active = "slices" \/ (split.by = "even" /\ split.size = 1
                                                /\ Len(split.loads) = 1))

Next ==
    \/ active = "trainer" /\ TrainerNext /\ UNCHANGED <<active, moduleVars, sliceVars>>
    \/ active = "module" /\ ModuleNext /\ UNCHANGED <<active, trainerVars, sliceVars>>
    \/ active = "slices" /\ SlicesNext /\ UNCHANGED <<active, trainerVars, moduleVars>>

Spec == Init /\ [][Next]_<<active, trainerVars, moduleVars, sliceVars>>
=============================================================================
