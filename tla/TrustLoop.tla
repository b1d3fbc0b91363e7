------------------------------- MODULE TrustLoop -------------------------------
(* The loop at the end of Mesh::verify that traces every issuer to the       *)
(* founder, pass by pass over the records in the order they are stored, for  *)
(* every list of records up to a bound.  Membership defines what the loop    *)
(* computes as a least set (Trusted, Traceable); here the two are compared.  *)
EXTENDS Membership, Sequences

CONSTANTS
  Founder,      \* the device that founded the mesh
  MaxRecords    \* bound: admissions in the list

ASSUME TrustLoopAssumption == Founder \in Node /\ MaxRecords \in Nat

VARIABLES
  records,   \* mesh.admissions, a Vec in the code
  trusted,   \* the devices found so far
  before,    \* how many there were when the pass began
  position,  \* of the record that the pass looks at
  verdict,   \* "running", then what verify returns
  passes     \* history: how many passes the loop has begun

loopVars == <<records, trusted, before, position, verdict, passes>>

LegacyIdentity ==
  [id |-> Founder, name |-> CHOOSE x \in MeshName : TRUE, founder |-> None]

\* Who admitted whom: the loop looks at nothing else.
Edge == {[member |-> [id |-> n, name |-> CHOOSE x \in Nickname : TRUE],
          issuer |-> k, generation |-> 0, sealed |-> LegacyIdentity] :
           n, k \in Node}

Listed == {records[i] : i \in 1 .. Len(records)}

MeshOf == [identity |-> LegacyIdentity, admissions |-> Listed, departures |-> {}]

\* verify has found the founder's own admission.
LoopInit ==
  /\ records \in UNION {[1 .. n -> Edge] : n \in 0 .. MaxRecords}
  /\ \E r \in Listed : r.member.id = Founder /\ r.issuer = Founder
  /\ trusted = {Founder} /\ before = 1 /\ position = 1
  /\ verdict = "running" /\ passes = 1

\* One record: whoever a trusted device admitted is trusted.
Visit ==
  /\ verdict = "running" /\ position <= Len(records)
  /\ trusted' = IF records[position].issuer \in trusted
                THEN trusted \cup {records[position].member.id} ELSE trusted
  /\ position' = position + 1
  /\ UNCHANGED <<records, before, verdict, passes>>

AllTrusted == \A r \in Listed : r.issuer \in trusted

\* Faulty variant: only the first pass may find new devices.
OnePassOnly ==
  /\ verdict = "running" /\ position > Len(records)
  /\ verdict' = IF AllTrusted THEN "accepted" ELSE "rejected"
  /\ before' = Cardinality(trusted) /\ position' = 1
  /\ passes' = IF verdict' = "running" THEN passes + 1 ELSE passes
  /\ UNCHANGED <<records, trusted>>

\* The end of a pass, and the beginning of the next if this one found somebody.
EndPass ==
  /\ verdict = "running" /\ position > Len(records)
  /\ verdict' = IF AllTrusted THEN "accepted"
                ELSE IF Cardinality(trusted) = before THEN "rejected" ELSE "running"
  /\ before' = Cardinality(trusted) /\ position' = 1
  /\ passes' = IF verdict' = "running" THEN passes + 1 ELSE passes
  /\ UNCHANGED <<records, trusted>>

LoopNext == Visit \/ EndPass

\* The loop runs in one call.
LoopSpec == LoopInit /\ [][LoopNext]_loopVars

-----------------------------------------------------------------------------
(* Properties *)

\* The verdict does not depend on the order of the records.  In at most as many
\* passes as it finds devices, whatever cycles the records form, the loop accepts
\* exactly the lists in which every issuer is in the least set of devices
\* admitted from the founder on (membership.rs:227).
VerdictIsTraceable ==
  /\ passes <= Cardinality(trusted)
  /\ verdict = "accepted" => Traceable(MeshOf)
  /\ verdict = "rejected" => ~Traceable(MeshOf)
=============================================================================
