----------------------------- MODULE MCInstances -----------------------------
EXTENDS InstancesProofs

\* A disk below a bridge below a bus, all of which a path may skip.
MCParentOf == [n \in {"root", "bus", "bridge", "disk"} |->
                  CASE n = "root" -> None [] n = "bus" -> "root"
                    [] n = "bridge" -> "bus" [] n = "disk" -> "bridge"]

MCPaths == {<<>>, <<"disk">>, <<"bus", "bridge", "disk">>, <<"bus", "filter", "disk">>,
            <<"bus", "absent">>}
=============================================================================
