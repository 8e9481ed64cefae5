-------------------------- MODULE ServerMessages --------------------------
(***************************************************************************)
(* The message the servers of a context extend one after the other to      *)
(* authenticate a client (sign/daga/server.go), with the verifications     *)
(* servers and client make of it (sign/daga/client.go).                    *)
(*                                                                         *)
(* Servers are named by their index in the context, and so are their keys. *)
(* The server of index j turns a tag T into (r_j / s_j) T, where r_j is    *)
(* its per-round secret and s_j what it shares with the client; a tag is   *)
(* known by how often each server has done so to the client's T0.  The     *)
(* null point absorbs these products, and a tag that no such product gives *)
(* is an "other" one.                                                      *)
(***************************************************************************)
EXTENDS Integers, Sequences

CONSTANT N              \* number of servers of the context

Servers == 0 .. N - 1

Tag(kind, applied) == [kind |-> kind, applied |-> applied]
Zero == [j \in Servers |-> 0]
T0 == Tag("product", Zero)
NullTag == Tag("null", Zero)
OtherTag == Tag("other", Zero)
Tags == [kind : {"product", "null", "other"}, applied : [Servers -> Nat]]

(* The tag of a client of the context, whatever the order of the servers   *)
(* and the client's ephemeral key: every s_j is gone, every r_j is there.  *)
LinkageTag == Tag("product", [j \in Servers |-> 1])

(* (<name>_<mistake>: a mistake a change of the code could make.)          *)
Exponentiated_Inverted(j, T) ==
    IF T.kind = "product" THEN [T EXCEPT !.applied[j] = @ - 1] ELSE T

(* T multiplied by RoundSecret / s.                                        *)
Exponentiated(j, T) ==
    IF T.kind = "product" THEN [T EXCEPT !.applied[j] = @ + 1] ELSE T

(* A client's request: whether its proof verifies, and the servers whose   *)
(* check of the client's commitments (S_j against s_j S_(j-1)) fails.      *)
ClientRequests == [proof : BOOLEAN, wrong : SUBSET Servers]

(* A proof that server index computed `to` from `from`, or that it found   *)
(* the client misbehaving.                                                 *)
NewServerProof(j, from, to) == [kind |-> "server", index |-> j, from |-> from, to |-> to]
NewMisbehavingProof(j) ==
    [kind |-> "misbehaving", index |-> j, from |-> NullTag, to |-> NullTag]
Proofs == [kind : {"server", "misbehaving"}, index : Servers, from : Tags, to : Tags]

(* What server j adds to a message: an element of each of the slices Tags, *)
(* Proofs, Indexes and Sigs.  A signature covers the elements before it.   *)
Unsigned == [index : Servers, tag : Tags, proof : Proofs]
Entries == [index : Servers, tag : Tags, proof : Proofs,
            sig : [by : Servers, on : Seq(Unsigned)]]

Content(entries) ==
    [i \in DOMAIN entries |->
        [index |-> entries[i].index, tag |-> entries[i].tag, proof |-> entries[i].proof]]

(* An entry under index `index`, signed by server j.                       *)
SignedEntry(entries, j, index, tag, proof) ==
    LET content == [index |-> index, tag |-> tag, proof |-> proof]
    IN  [index |-> index, tag |-> tag, proof |-> proof,
         sig |-> [by |-> j, on |-> Append(Content(entries), content)]]

NewEntry(entries, j, tag, proof) == SignedEntry(entries, j, j, tag, proof)

TagBefore(entries, i) == IF i = 1 THEN T0 ELSE entries[i - 1].tag

(* The position in the message taken for the server's index.               *)
VerifyServerProof_ByPosition(request, entries, i) ==
    LET j == i - 1
        T == entries[i].tag
    IN  /\ entries[i].proof = NewServerProof(j, TagBefore(entries, i), T)
        /\ T = Exponentiated(j, TagBefore(entries, i))
        /\ j \notin request.wrong

(* verifyServerProof: the tag is the previous one exponentiated with the   *)
(* secrets the server is committed to and the client's commitments show.   *)
VerifyServerProof(request, entries, i) ==
    LET j == entries[i].index
        T == entries[i].tag
    IN  /\ entries[i].proof = NewServerProof(j, TagBefore(entries, i), T)
        /\ T = Exponentiated(j, TagBefore(entries, i))
        /\ j \notin request.wrong

(* verifyMisbehavingProof under the key of index j.                        *)
VerifyMisbehavingProof(proof, j) == proof.index = j

ProofValid(request, entries, i) ==
    IF entries[i].proof.kind = "misbehaving"
      THEN VerifyMisbehavingProof(entries[i].proof, i - 1)
      ELSE VerifyServerProof(request, entries, i)

(* The last proof left out.                                                *)
ProofsValid_NotTheLast(request, entries) ==
    \A i \in 1 .. Len(entries) - 1 : ProofValid(request, entries, i)

(* All the proofs, a misbehaving proof under the key at the position of    *)
(* the proof in the message (members.Y[i]).                                *)
ProofsValid(request, entries) ==
    \A i \in DOMAIN entries : ProofValid(request, entries, i)

(* Each entry is signed, with what is before it, by the server the         *)
(* signature names (sig.by), which nothing compares with the entry's index. *)
SignaturesValid(entries) ==
    \A i \in DOMAIN entries : entries[i].sig.on = SubSeq(Content(entries), 1, i)

(* The checks ServerProtocol makes before it works on a message.           *)
Accepts(request, entries) ==
    /\ request.proof
    /\ Len(entries) < N
    /\ SignaturesValid(entries)
    /\ ProofsValid(request, entries)

(* ServerProtocol, steps 2 to 4, by server j.                              *)
ServerProtocol(request, entries, j) ==
    LET previous == TagBefore(entries, Len(entries) + 1)
        T == Exponentiated(j, previous)
    IN  Append(entries,
               IF j \in request.wrong
                 THEN NewEntry(entries, j, NullTag, NewMisbehavingProof(j))
                 ELSE NewEntry(entries, j, T, NewServerProof(j, previous, T)))

(* GetFinalLinkageTag: whether it returns a tag, and the tag.              *)
HasFinalTag(request, entries) ==
    /\ entries # <<>>
    /\ SignaturesValid(entries)
    /\ ProofsValid(request, entries)

FinalTag(entries) == entries[Len(entries)].tag
=============================================================================
