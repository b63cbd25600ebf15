------------------------------- MODULE Signing ------------------------------
(***************************************************************************)
(* One transaction signed by its signers, in any order, as the multisig    *)
(* and sponsored examples do it: a draft is built and may be built again   *)
(* or get its fee payer while signatures are collected; the signatures     *)
(* held are put together, the signed transaction is verified, and its      *)
(* bytes are read by another program, all of them or a part.               *)
(***************************************************************************)
EXTENDS SignedTransactions, PayloadBuilders

CONSTANTS Plans,     \* who is to sign what: see PlanShape
          MaxHeld,   \* bound: signatures collected
          MaxDrafts, \* bound: times the transaction is built
          MaxCut     \* bound: drafts, from the first, whose bytes may arrive in part

VARIABLES plan,     \* the plan of this transaction
          draft,    \* the draft: its number, and whether its fee payer is known
          held,     \* the signatures collected, in order of arrival
          sent,     \* <<>>, or the signed transaction
          verdict,  \* what Verify said of it
          arrived   \* <<>>, or how many of its bytes arrived and what was read

vars == <<plan, draft, held, sent, verdict, arrived>>

Range1(s) == {s[i] : i \in DOMAIN s}

PlanShape(p) ==
  /\ p.form \in {"Plain", "MultiAgent", "FeePayer"}
  /\ p.kind \in Range1(Kinds)
  /\ p.owners # <<>>
  /\ p.kind \in {"Ed25519", "SingleSender"} => Len(p.owners) = 1
  /\ p.kind \in {"Ed25519", "MultiEd25519"} => \A k \in Range1(p.owners) : k.type = "Ed25519"
  /\ p.form = "Plain" => p.others = <<>>
  /\ Range1(p.amounts) \subseteq 0 .. Modulo("u64") - 1
  /\ Len(p.payer) = (IF p.form = "FeePayer" THEN 1 ELSE 0)

ASSUME SigningAssumption == /\ \A p \in Plans : PlanShape(p)
                            /\ MaxHeld \in Nat /\ MaxDrafts \in Nat /\ MaxCut \in Nat

-----------------------------------------------------------------------------
(* Accounts and drafts.                                                     *)

\* Every key signs: the owners of the sender, the other signers, the payer.
Signers == plan.owners \o plan.others \o plan.payer
Owners == DOMAIN plan.owners

SingleAuthenticator(key, sig) ==
  Authenticator(IF key.type = "Ed25519" THEN "Ed25519" ELSE "SingleSender", <<key>>, 0, <<sig>>, <<>>)

\* NewAccountFromSigner
AccountAddress(key) == AuthKey(SingleAuthenticator(key, Nil))

\* An account that is given more owners keeps its address.
Sender == IF plan.kind = "MultiAuthKey" THEN AccountAddress(plan.owners[1])
          ELSE AuthKey(Authenticator(plan.kind, plan.owners, plan.required, <<>>, <<>>))

Raw(number) == RawTransaction(Sender, number, plan.payload, 2, 1, 3, 1)

Data(d) == WithData(Raw(d.number), [i \in DOMAIN plan.others |-> AccountAddress(plan.others[i])],
                    [i \in DOMAIN plan.payer |-> IF d.payerKnown THEN AccountAddress(plan.payer[i])
                                                 ELSE Account(0)])

\* A signer is handed the draft as bytes, and signs what it reads.
Handed(d) == IF plan.form = "Plain" THEN Deserialize(WriteRaw(Raw(d.number)), ReadRaw)
             ELSE Deserialize(WriteWithData(Data(d)), ReadWithData)

Message(read) == IF plan.form = "Plain" THEN SigningMessage(read) ELSE WithDataSigningMessage(read)

-----------------------------------------------------------------------------

Init == /\ plan \in Plans
        /\ draft = [number |-> 1, payerKnown |-> FALSE]
        /\ held = <<>> /\ sent = <<>> /\ verdict = "none" /\ arrived = <<>>

Collecting == sent = <<>> /\ verdict = "none"

\* The draft is built anew, with the next sequence number.
Rebuild == /\ Collecting /\ draft.number < MaxDrafts
           /\ draft' = [number |-> draft.number + 1, payerKnown |-> FALSE]
           /\ UNCHANGED <<plan, held, sent, verdict, arrived>>

SetFeePayer == /\ Collecting /\ plan.form = "FeePayer" /\ ~draft.payerKnown
               /\ draft' = [draft EXCEPT !.payerKnown = TRUE]
               /\ UNCHANGED <<plan, held, sent, verdict, arrived>>

\* SigningMessage and Sign of the draft; on is history.
Sign(who) == /\ Collecting /\ Len(held) < MaxHeld
             /\ \E read \in {Handed(draft)} :
                  /\ Ok(read)
                  /\ held' = Append(held, [who |-> who, on |-> draft,
                                           sig |-> SignMessage(Signers[who], Message(read.val))])
             /\ UNCHANGED <<plan, draft, sent, verdict, arrived>>

HeldOf(S) == SelectSeq(held, LAMBDA h : h.who \in S)
OfOwners == HeldOf(Owners)
OfOthers == HeldOf({Len(plan.owners) + i : i \in DOMAIN plan.others})
OfPayer == HeldOf({Len(plan.owners) + Len(plan.others) + i : i \in DOMAIN plan.payer})
SigsOf(s) == [i \in DOMAIN s |-> s[i].sig]
KeysOf(s) == [i \in DOMAIN s |-> Signers[s[i].who]]
AuthenticatorsOf(s) == [i \in DOMAIN s |-> SingleAuthenticator(KeysOf(s)[i], s[i].sig)]

\* A multi-ed25519 signature is put together by hand: one signature of each
\* owner that signed, in the owners' order.
InOwnersOrder == LET signed == SetToSortSeq({h.who : h \in Range1(OfOwners)}, <)
                 IN  [i \in DOMAIN signed |-> Last(HeldOf({signed[i]}))]

SenderMultiKey ==
  MultiKeySignature([i \in DOMAIN OfOwners |-> [index |-> OfOwners[i].who - 1, sig |-> OfOwners[i].sig]])

SenderAuthenticator ==
  CASE plan.kind = "MultiEd25519" ->
         Authenticator(plan.kind, plan.owners, plan.required, SigsOf(InOwnersOrder),
                       Repeat(0, MultiEd25519BitmapLen))
    [] plan.kind = "MultiKey" ->
         Authenticator(plan.kind, plan.owners, plan.required, SenderMultiKey.sigs, SenderMultiKey.bitmap)
    [] plan.kind = "MultiAuthKey" ->  \* FromAuthenticators
         Authenticator(plan.kind, KeysOf(OfOwners), 0, SigsOf(OfOwners), <<>>)
    [] OTHER -> Authenticator(plan.kind, plan.owners, 0, <<Last(OfOwners).sig>>, <<>>)

CannotBuild == plan.kind = "MultiKey" /\ SenderMultiKey.failed

\* Mutant: the first draft is sent.
AssembledOfFirst == Signed(Raw(1), ForSender(SenderAuthenticator))

Assembled ==
  Signed(Raw(draft.number),
    CASE plan.form = "Plain"      -> ForSender(SenderAuthenticator)
      [] plan.form = "MultiAgent" -> MultiAgent(Data(draft), SenderAuthenticator, AuthenticatorsOf(OfOthers))
      [] plan.form = "FeePayer"   -> FeePayer(Data(draft), SenderAuthenticator, AuthenticatorsOf(OfOthers),
                                              Last(AuthenticatorsOf(OfPayer))))

\* What is held is put together, and verified.
CanAssemble == OfOwners # <<>> /\ (plan.payer # <<>> => OfPayer # <<>>)
Assemble == /\ Collecting /\ CanAssemble
            /\ IF CannotBuild THEN sent' = <<>> /\ verdict' = "not built"
               ELSE \E signed \in {Assembled} : sent' = <<signed>> /\ verdict' = VerifySigned(signed)
            /\ UNCHANGED <<plan, draft, held, arrived>>

\* The first n bytes arrive and are read.
Arrive == /\ sent # <<>> /\ arrived = <<>>
          /\ \E wire \in {WriteSigned(sent[1])} : \E n \in 0 .. Len(wire) :
               /\ n = Len(wire) \/ draft.number <= MaxCut
               /\ \E read \in {Deserialize(SubSeq(wire, 1, n), ReadSigned)} :
                    arrived' = <<[whole |-> n = Len(wire), err |-> read.err,
                                  same |-> Ok(read) /\ read.val = sent[1]]>>
          /\ UNCHANGED <<plan, draft, held, sent, verdict>>

\* Over, also when the bound leaves a signature out that is needed.
Finished == /\ arrived # <<>> \/ verdict = "not built" \/ (Len(held) = MaxHeld /\ ~CanAssemble)
            /\ UNCHANGED vars

Next == \/ Rebuild \/ SetFeePayer \/ Assemble \/ Arrive
        \/ \E who \in DOMAIN Signers : Sign(who)
        \/ Finished

Spec == Init /\ [][Next]_vars

-----------------------------------------------------------------------------
(* Properties.                                                              *)

Used == IF plan.kind \in {"Ed25519", "SingleSender"}
        THEN <<Last(OfOwners)>> \o OfOthers ELSE OfOwners \o OfOthers
Current(h) == h.on = draft
LooksAt(h) == ~(plan.kind = "MultiKey" /\ h.who \in Owners) \/ h.who % Bits = 0
Drafted == IF plan.form = "Plain" THEN Raw(draft.number) ELSE Data(draft)
Whos(s) == {h.who : h \in Range1(s)}

\* The drafts, what is held, what came of it and what was read have the types
\* of the code, and a signed transaction has an authenticator of its draft's form.
TypeOK ==
  /\ plan \in Plans
  /\ draft \in [number : 1 .. MaxDrafts, payerKnown : BOOLEAN]
  /\ \A h \in Range1(held) : /\ h.who \in DOMAIN Signers
                             /\ h.sig \in [type : {Signers[h.who].type}, bytes : Seq(Byte)]
  /\ verdict \in {"none", "not built", "accepted", "refused", "panic"}
  /\ Len(sent) <= 1 /\ Len(arrived) <= 1
  /\ sent # <<>> => sent[1].auth.form \in Range1(Forms) /\ sent[1].transaction = Raw(draft.number)

\* What a payload of the coin transfers moves, by its bytes.
Moves(p) ==
  LET u128(d) == ReadInt(d, "u128")
  IN  IF p.function \in {Names["batch_transfer"], Names["batch_transfer_coins"]}
      THEN Deserialize(p.args[2], LAMBDA d : ReadSequence(d, u128)).val
      ELSE <<Deserialize(p.args[2], u128).val>>

\* A signer reads the draft it is handed, and a signed transaction whose bytes
\* all arrive is read as the one that was sent: lengths of one byte and of more
\* are read whole, and nothing of what follows them; only a multi-ed25519 sender's, written with a variant that the reader
\* does not expect, is not. What was sent moves the coins that were asked for,
\* of each amount up to half of what 64 bits hold.
IntactIsRead ==
  /\ Collecting => \E read \in {Handed(draft)} : Ok(read) /\ read.val = Drafted
  /\ \A a \in Range1(arrived) :
       a.whole => /\ a.same <=> sent[1].auth.form # "MultiEd25519"
                  /\ plan.amounts # <<>> =>
                       LET moved == Moves(sent[1].transaction.payload)
                       IN  /\ Len(moved) = Len(plan.amounts)
                           /\ \A i \in DOMAIN moved :
                                moved[i] = plan.amounts[i] <=> plan.amounts[i] <= Modulo("u64") \div 2

\* No part of a signed transaction is read as one: it is an error, and where
\* the signature of a multi-ed25519 sender is cut it may be a panic.
TruncatedIsRefused == \A a \in Range1(arrived) :
                        ~a.whole => \/ a.err = "error"
                                    \/ a.err = "panic" /\ plan.kind = "MultiEd25519"

\* Verify accepts only a transaction whose signatures that it looks at were all
\* made over the last draft, with as many signatures as the sender's threshold:
\* a signature of an earlier draft is never taken. Of a multi-key sender's it
\* looks at those of the last key in each byte of the bitmap.
AcceptedWasSigned ==
  verdict = "accepted" =>
    /\ \A h \in Range1(OfOthers) : Current(h)
    /\ CASE plan.kind = "MultiEd25519" ->
              Cardinality({i \in DOMAIN InOwnersOrder : Current(InOwnersOrder[i])}) >= plan.required
         [] plan.kind = "MultiKey" ->
              /\ Len(OfOwners) >= plan.required
              /\ \A h \in Range1(OfOwners) : LooksAt(h) => Current(h)
         [] OTHER -> \A h \in Range1(Used) : Current(h)

\* Signers that all signed the last draft, each once, in whatever order, are
\* accepted: but for multi-ed25519 senders of whom not all signed, and multi-key
\* senders whose looked at signature is not first. Sponsored transactions that
\* all have signed are refused, and no other.
HonestIsAccepted ==
  /\ sent # <<>>
  /\ \A h \in Range1(Used) : Current(h)
  /\ IsInjective([i \in DOMAIN held |-> held[i].who])
  /\ plan.kind = "MultiEd25519" => Whos(OfOwners) = Owners
  /\ plan.kind = "MultiKey" => /\ Len(OfOwners) >= plan.required
                               /\ \A h, g \in Range1(OfOwners) : LooksAt(h) /\ ~LooksAt(g) => h.who < g.who
  => verdict = IF plan.form = "FeePayer" THEN "refused" ELSE "accepted"
==============================================================================
