--------------------------- MODULE MCBuildCommand ---------------------------
(* Two images, which two tests can be run on at the same time, and all       *)
(* options but those that have no effect on each other.                      *)
EXTENDS BuildCommand

CONSTANTS i1, i2

TwoImages == {i1, i2}

AllOptions ==
    {o \in Options :
        /\ o.backend = "other" => ~o.push /\ ~o.dryRun /\ ~o.noRetag /\ o.tests # "none"
        /\ o.kubernetes => o.tests = "goss"
        /\ o.force => ~o.noRetag /\ ~o.dryRun /\ o.tests # "none"
        /\ o.noRetag => ~o.dryRun /\ o.tests = "goss" /\ ~o.kubernetes}

\* Each version tag may be in the registry or not, the dev tags are there or not,
\* and so are they on the host, with the version tag of one image.
Earlier == {"none", "old"}
SomeStores ==
    {[registry |-> [dev |-> [n \in TwoImages |-> dev], version |-> version],
      local |-> [dev |-> [n \in TwoImages |-> kept], version |-> [n \in TwoImages |-> IF n = i1 THEN kept ELSE "none"]]] :
        version \in [TwoImages -> Earlier], dev \in Earlier, kept \in Earlier}

=============================================================================
