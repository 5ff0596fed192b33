---------------------------- MODULE Capabilities ----------------------------
(***************************************************************************)
(* capabilities.py: what a panel can do, from its model byte, its status   *)
(* and its programming, each of which may still be missing (None).         *)
(***************************************************************************)
EXTENDS Codec

ModelSpec(partitions, zones, pgms, hasFence) ==
  [partitions |-> partitions, zones |-> zones, pgms |-> pgms, has_fence |-> hasFence]

MODELS ==
  [b \in {75, 93} \cup 160..168 |->
    CASE b = 160 -> ModelSpec(4, 32, 4, TRUE)
      [] b \in {161, 163} -> ModelSpec(2, 22, 4, TRUE)
      [] b = 162 -> ModelSpec(2, 12, 0, FALSE)
      [] b = 164 -> ModelSpec(16, 99, 16, TRUE)
      [] b = 165 -> ModelSpec(2, 32, 16, TRUE)
      [] b = 166 -> ModelSpec(4, 32, 16, FALSE)
      [] b \in {167, 168} -> ModelSpec(2, 32, 4, TRUE)
      [] b = 75 -> ModelSpec(0, 0, 4, FALSE)
      [] b = 93 -> ModelSpec(0, 0, 2, FALSE)]

UNKNOWN_MODEL == ModelSpec(16, 99, 16, TRUE)

SpecFor(b) == IF b \in DOMAIN MODELS THEN MODELS[b] ELSE UNKNOWN_MODEL

\* The lowest output whose function drives the fence.
DetectFencePgm(pgms) ==
  LET fence == {n \in DOMAIN pgms : DrivesFence(pgms[n].attributes)}
  IN IF fence = {} THEN None ELSE CHOOSE n \in fence : \A k \in fence : n <= k

\* Fault: what is not known counts as off.
DoublingCapGuess(model, doubling) ==
  IF doubling # TRUE /\ model.zones % 2 = 0 THEN model.zones \div 2 ELSE model.zones

\* Halved only where zone doubling is known to be off and the count is even.
DoublingCap(model, doubling) ==
  IF doubling = FALSE /\ model.zones % 2 = 0 THEN model.zones \div 2 ELSE model.zones

Detect(model, status, pgms, zoneOptions) ==
  LET doubling == IF zoneOptions = None THEN None ELSE zoneOptions.zone_doubling
  IN [partitions |-> model.partitions,
      zones |-> DoublingCap(model, doubling),
      pgms |-> model.pgms,
      has_fence |-> IF status = None THEN model.has_fence ELSE status.fence.present,
      detected_fence_pgm |-> IF pgms = None THEN None ELSE DetectFencePgm(pgms),
      zone_doubling |-> doubling]

\* The owner's setting (0: none) has the last word.
EffectiveFencePgm(caps, configured) ==
  IF configured # 0 THEN configured ELSE caps.detected_fence_pgm

\* Fault: the setting alone is looked at.
PgmDrivesConfigured(caps, number, configured) == configured = number

PgmDrivesFence(caps, number, configured) == EffectiveFencePgm(caps, configured) = number

FencePgmConflict(caps, configured) ==
  IF configured # 0 /\ caps.detected_fence_pgm # None /\ configured # caps.detected_fence_pgm
    THEN caps.detected_fence_pgm ELSE None
=============================================================================
