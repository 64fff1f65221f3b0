------------------------ MODULE MCInstanceReconciler ------------------------
(* Instances of InstanceReconciler for TLC: the specs users switch between   *)
(* and the access modes of the PVC.                                          *)
EXTENDS InstanceReconciler

Sp(ref, conf, readOnly, n, type) ==
    [presetRef |-> ref, conf |-> conf, overridesReadOnly |-> "unset",
     pvcReadOnly |-> readOnly, replicas |-> n, serviceType |-> type]

\* A configuration change together with a scale to zero and back.
ScaleSpecs == {Sp(FALSE, "c1", "unset", 1, "NodePort"), Sp(FALSE, "c2", "unset", 0, "NodePort")}

\* A scale to zero and back, where the serving spec overrides a preset.
RaceSpecs == {Sp(TRUE, "c1", "unset", 1, "NodePort"), Sp(FALSE, "c1", "unset", 0, "NodePort")}

\* The same instance with another configuration.
RolloutSpecs == {Sp(FALSE, "c1", "unset", 1, "NodePort"), Sp(FALSE, "c2", "unset", 1, "NodePort")}

\* Two replicas, writable or read-only, by spec.pvcReadOnly or against it by the
\* override; the read-only one takes its configuration from the preset.
SharedSpecs == {Sp(FALSE, "c1", "false", 2, "ClusterIP"),
                Sp(TRUE, "unset", "true", 2, "ClusterIP"),
                [Sp(FALSE, "c1", "true", 2, "ClusterIP") EXCEPT !.overridesReadOnly = "false"]}

\* The configuration comes from the preset.
PresetSpecs == {Sp(TRUE, "unset", "unset", 1, "ClusterIP"), Sp(TRUE, "unset", "unset", 2, "ClusterIP")}

OneNode   == {{"ReadWriteOnce"}}
ManyNodes == {{"ReadOnlyMany"}, {"ReadWriteOnce", "ReadWriteMany"}}
=============================================================================
