------------------------------- MODULE Messages -------------------------------
(***************************************************************************)
(* The messages of the protocol: the field layout each serialize_* function *)
(* writes, the layout each deserialize_* function reads (serialize.cpp), and *)
(* the payload of every message type a client or the coordinator sends       *)
(* (worker.cpp, coordinator.cpp).                                            *)
(***************************************************************************)
EXTENDS Codec

serialize_request ==
  u64s(<<"id", "gen", "collective", "collective_gen">>) \o u8s(<<"kind">>)
  \o u64s(<<"payload_bytes">>)
  \o ids(<<"participants", "participant_gens", "per_participant_payload">>)
  \o u64s(<<"plan_id", "plan_gen">>)
  \o vec("dependencies", <<8, 8, 1, 1>>) \o vec("resource_claims", <<8, 8, 8, 1, 1>>)
  \o strs("exclusion_classes")
  \o u32s(<<"priority">>) \o u64s(<<"priority_gen">>) \o u8s(<<"authoritative">>)
  \o u64s(<<"earliest_start", "latest_start", "deadline", "expected_duration", "slack">>)
  \o u8s(<<"window_source", "overlap", "fairness_class">>)
  \o opt("reservation_gen")
  \o u64s(<<"workload", "workload_gen">>) \o u8s(<<"queue_class">>)
  \o u32s(<<"max_retries", "retry_count">>) \o u64s(<<"policy_gen">>) \o u8s(<<"provenance">>)

deserialize_request ==
  u64s(<<"id", "gen", "collective", "collective_gen">>) \o u8s(<<"kind">>)
  \o u64s(<<"payload_bytes">>)
  \o ids(<<"participants", "participant_gens", "per_participant_payload">>)
  \o u64s(<<"plan_id", "plan_gen">>)
  \o vec("dependencies", <<8, 8, 1, 1>>) \o vec("resource_claims", <<8, 8, 8, 1, 1>>)
  \o strs("exclusion_classes")
  \o u32s(<<"priority">>) \o u64s(<<"priority_gen">>) \o u8s(<<"authoritative">>)
  \o u64s(<<"earliest_start", "latest_start", "deadline", "expected_duration", "slack">>)
  \o u8s(<<"window_source", "overlap", "fairness_class">>)
  \o opt("reservation_gen")
  \o u64s(<<"workload", "workload_gen">>) \o u8s(<<"queue_class">>)
  \o u32s(<<"max_retries", "retry_count">>) \o u64s(<<"policy_gen">>) \o u8s(<<"provenance">>)

serialize_grant ==
  u64s(<<"id", "gen", "request", "request_gen", "collective", "collective_gen",
         "schedule", "schedule_gen">>)
  \o ids(<<"participants", "participant_gens">>)
  \o u64s(<<"plan", "plan_gen", "ev_epoch", "ev_collective", "ev_request", "ev_plan",
            "ev_participant", "ev_dependency", "ev_reservation", "ev_congestion", "ev_capacity",
            "ev_policy", "ev_priority", "ev_fairness", "ev_topology", "ev_capability", "ev_health">>)
  \o u8s(<<"fresh_participants", "fresh_plan", "fresh_reservation", "fresh_dependencies",
           "fresh_congestion", "fresh_capacity", "fresh_authority", "current_epoch">>)
  \o u64s(<<"workload", "execution_attempt", "execution_attempt_gen", "policy_gen">>)
  \o u8s(<<"active", "terminal">>)

deserialize_grant ==
  u64s(<<"id", "gen", "request", "request_gen", "collective", "collective_gen",
         "schedule", "schedule_gen">>)
  \o ids(<<"participants", "participant_gens">>)
  \o u64s(<<"plan", "plan_gen", "ev_epoch", "ev_collective", "ev_request", "ev_plan",
            "ev_participant", "ev_dependency", "ev_reservation", "ev_congestion", "ev_capacity",
            "ev_policy", "ev_priority", "ev_fairness", "ev_topology", "ev_capability", "ev_health">>)
  \o u8s(<<"fresh_participants", "fresh_plan", "fresh_reservation", "fresh_dependencies",
           "fresh_congestion", "fresh_capacity", "fresh_authority", "current_epoch">>)
  \o u64s(<<"workload", "execution_attempt", "execution_attempt_gen", "policy_gen">>)
  \o u8s(<<"active", "terminal">>)

serialize_participant ==
  u64s(<<"id", "gen", "worker", "worker_boot", "source", "source_boot", "device", "node", "nic",
         "capability_gen", "health_gen", "topology_gen">>)
  \o u32s(<<"process_id">>) \o u8s(<<"ready", "readiness_source", "provenance">>)

deserialize_participant ==
  u64s(<<"id", "gen", "worker", "worker_boot", "source", "source_boot", "device", "node", "nic",
         "capability_gen", "health_gen", "topology_gen">>)
  \o u32s(<<"process_id">>) \o u8s(<<"ready", "readiness_source", "provenance">>)

serialize_plan ==
  u64s(<<"id", "gen">>) \o u8s(<<"kind">>) \o u64s(<<"topology_gen">>)
  \o ids(<<"participants", "flows", "resources", "links", "paths">>)
  \o u64s(<<"byte_count", "estimated_bandwidth", "estimated_duration", "communication_cost">>)
  \o u8s(<<"provenance", "valid">>)

deserialize_plan ==
  u64s(<<"id", "gen">>) \o u8s(<<"kind">>) \o u64s(<<"topology_gen">>)
  \o ids(<<"participants", "flows", "resources", "links", "paths">>)
  \o u64s(<<"byte_count", "estimated_bandwidth", "estimated_duration", "communication_cost">>)
  \o u8s(<<"provenance", "valid">>)

serialize_congestion ==
  u64s(<<"gen", "utilization", "residual_bandwidth">>) \o u8s(<<"is_congested", "hard_ceiling">>)
  \o u64s(<<"hard_ceiling_utilization">>) \o u8s(<<"backpressure_intent">>)
  \o ids(<<"bottlenecks">>) \o u8s(<<"provenance">>)

deserialize_congestion ==
  u64s(<<"gen", "utilization", "residual_bandwidth">>) \o u8s(<<"is_congested", "hard_ceiling">>)
  \o u64s(<<"hard_ceiling_utilization">>) \o u8s(<<"backpressure_intent">>)
  \o ids(<<"bottlenecks">>) \o u8s(<<"provenance">>)

serialize_reservation ==
  u64s(<<"gen">>) \o u8s(<<"strength">>) \o u64s(<<"reserved_bandwidth">>)
  \o ids(<<"resources", "links">>) \o u64s(<<"window_start", "window_end">>)
  \o u8s(<<"provenance", "valid">>)

deserialize_reservation ==
  u64s(<<"gen">>) \o u8s(<<"strength">>) \o u64s(<<"reserved_bandwidth">>)
  \o ids(<<"resources", "links">>) \o u64s(<<"window_start", "window_end">>)
  \o u8s(<<"provenance", "valid">>)

serialize_dependency ==
  u64s(<<"id">>) \o u8s(<<"kind">>) \o u64s(<<"gen">>) \o u8s(<<"satisfied", "source">>)

\* Mutation of deserialize_dependency: the satisfied flag and its source are
\* read in each other's place.
deserialize_dependency_swapped ==
  u64s(<<"id">>) \o u8s(<<"kind">>) \o u64s(<<"gen">>) \o u8s(<<"source", "satisfied">>)

deserialize_dependency ==
  u64s(<<"id">>) \o u8s(<<"kind">>) \o u64s(<<"gen">>) \o u8s(<<"satisfied", "source">>)

serialize_capacity ==
  u64s(<<"gen", "usable_capacity", "headroom", "confidence">>) \o u8s(<<"provenance">>)

deserialize_capacity ==
  u64s(<<"gen", "usable_capacity", "headroom", "confidence">>) \o u8s(<<"provenance">>)
-------------------------------------------------------------------------------
\* The payload each message is sent with.  The three counts of the reply to
\* QUERY_SCHEDULE travel as a second payload of HELLO, the identity of a
\* submitted request as the payload of ERROR.
written ==
  [HELLO |-> <<>>, SUMMARY |-> u64s(<<"selected", "grants_issued", "stale_rejections">>),
   REGISTER |-> u64s(<<"worker", "boot">>),
   PUBLISH_PARTICIPANT |-> serialize_participant, UPDATE_PLAN |-> serialize_plan,
   UPDATE_CONGESTION |-> serialize_congestion, UPDATE_RESERVATION |-> serialize_reservation,
   UPDATE_CAPACITY |-> serialize_capacity, UPDATE_DEPENDENCY |-> serialize_dependency,
   SUBMIT_COLLECTIVE |-> serialize_request, ERROR |-> u64s(<<"submitted">>),
   QUERY_SCHEDULE |-> <<>>, GRANT |-> serialize_grant,
   EXECUTION_ACCEPTED |-> serialize_grant \o u64s(<<"accepted_workload">>),
   COMPLETE |-> serialize_grant \o u64s(<<"worker_boot", "source_boot">>),
   FENCE_WORKER |-> u64s(<<"worker", "boot">>),
   SAVE |-> <<>>, SHUTDOWN |-> <<>>]

\* The payload each handler reads, to its end; the others are not looked at.
reads ==
  [PUBLISH_PARTICIPANT |-> deserialize_participant, UPDATE_PLAN |-> deserialize_plan,
   UPDATE_CONGESTION |-> deserialize_congestion, UPDATE_RESERVATION |-> deserialize_reservation,
   UPDATE_CAPACITY |-> deserialize_capacity, UPDATE_DEPENDENCY |-> deserialize_dependency,
   SUBMIT_COLLECTIVE |-> deserialize_request, GRANT |-> deserialize_grant,
   COMPLETE |-> deserialize_grant \o u64s(<<"worker_boot", "source_boot">>),
   FENCE_WORKER |-> u64s(<<"worker", "boot">>)]
===============================================================================
