------------------------------- MODULE Conflict -------------------------------
(***************************************************************************)
(* Footprints and conflict classification: conflict.hpp, conflict.cpp.      *)
(* Sorted-unique vectors are sets, so normalize() and set_intersect() are    *)
(* set equality and set intersection.                                        *)
(***************************************************************************)

\* What a request and its current plan occupy; plan is None when unpublished.
\* make_footprint never copies the request's exclusion classes.
make_footprint(req, plan, None) ==
  [participants      |-> DOMAIN req.participants,
   resources         |-> req.resources \cup
                           (IF plan = None THEN {} ELSE plan.resources),
   links             |-> IF plan = None THEN {} ELSE plan.links,
   exclusion_classes |-> {},
   footprint_unknown |-> IF plan = None THEN TRUE ELSE ~plan.valid]

intersect_nonempty(a, b) == a \cap b # {}

\* The first dimension in which two footprints meet.
classify_conflict(a, b) ==
  IF intersect_nonempty(a.participants, b.participants)
    THEN "PARTICIPANT_CONFLICT"
  ELSE IF intersect_nonempty(a.resources, b.resources)
    THEN "RESOURCE_CONFLICT"
  ELSE IF intersect_nonempty(a.links, b.links)
    THEN "LINK_CONFLICT"
  ELSE IF intersect_nonempty(a.exclusion_classes, b.exclusion_classes)
    THEN "POLICY_CONFLICT"
  ELSE IF a.footprint_unknown \/ b.footprint_unknown
    THEN "UNKNOWN"
  ELSE "NO_CONFLICT"

\* Every classification but NO_CONFLICT has severity HIGH or FATAL or is UNKNOWN.
forbids_overlap(classification) == classification # "NO_CONFLICT"
==============================================================================
