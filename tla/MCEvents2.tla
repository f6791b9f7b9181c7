------------------------------ MODULE MCEvents2 ------------------------------
(* Instances of Events2 for TLC. *)
EXTENDS Events2

CONSTANTS r1, r2

Full == <<"resource">> :> [role |-> "Secondary", fail_io |-> FALSE]
        @@ <<"device", 0>> :> [disk |-> "UpToDate", quorum |-> TRUE]
        @@ <<"connection", "c">> :> [state |-> "Connected", role |-> "Secondary"]
        @@ <<"peer-device", "c", 0>> :> [repl |-> "Established", disk |-> "UpToDate", stable |-> TRUE]
        @@ <<"path", "c">> :> [established |-> TRUE]

Empty == <<"resource">> :> [role |-> "Secondary", fail_io |-> FALSE]

MCInfos ==
  [k \in {"resource", "device", "connection", "peer-device", "path"} |->
     CASE k = "resource" -> {[role |-> "Secondary", fail_io |-> FALSE]}
       [] k = "device" -> {[disk |-> x, quorum |-> TRUE] : x \in {"Diskless", "UpToDate"}}
       [] k = "connection" -> {[state |-> "Connected", role |-> "Secondary"]}
       [] k = "peer-device" -> {[repl |-> "Established", disk |-> "UpToDate", stable |-> TRUE]}
       [] k = "path" -> {[established |-> x] : x \in BOOLEAN}]

MCKernels == {<<>>, r1 :> Full}
TwoKernels == {(r1 :> Empty) @@ (r2 :> Empty)}
=============================================================================
