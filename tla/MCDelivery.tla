----------------------------- MODULE MCDelivery -----------------------------
(* Instances of Delivery for TLC. *)
EXTENDS Delivery

AuditMode(t) == [client |-> "audit", transport |-> t]
ReconMode(t) == [client |-> "recon", transport |-> t]

AllModes == {AuditMode("http"), AuditMode("kafka"), AuditMode("none"),
             ReconMode("http"), ReconMode("none")}
ReconPosts == {ReconMode("http")}

(* Audit events and obligations have a key of their own; the execution     *)
(* records of one hedge share the hedge id.                                *)
OwnKeys == [r \in Record |-> r]
OneHedge == [r \in Record |-> "hedge"]
=============================================================================
