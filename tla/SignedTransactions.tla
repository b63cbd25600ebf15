------------------------- MODULE SignedTransactions -------------------------
(***************************************************************************)
(* Raw transactions, the messages that are signed for them, transaction    *)
(* authenticators and signed transactions.                                 *)
(***************************************************************************)
EXTENDS Authenticators

RawTransaction(sender, sequenceNumber, payload, maxGas, gasPrice, expiration, chainId) ==
  [sender |-> sender, sequenceNumber |-> sequenceNumber, payload |-> payload, maxGas |-> maxGas,
   gasPrice |-> gasPrice, expiration |-> expiration, chainId |-> chainId]

WriteRaw(t) == WriteAddress(t.sender) \o U64(t.sequenceNumber) \o WritePayload(t.payload)
                 \o U64(t.maxGas) \o U64(t.gasPrice) \o U64(t.expiration) \o U8(t.chainId)

ReadRaw(d) ==
  LET throughMaxGas == First4(d, ReadAddress, ReadU64, ReadPayload, ReadU64)
  IN  Make(And(And(And(throughMaxGas, ReadU64), ReadU64), ReadU8),
           LAMBDA v : RawTransaction(v[1], v[2], v[3], v[4], v[5], v[6], v[7]))

\* RawTransactionWithData: payer is a sequence, of one address when there is a
\* fee payer; the variant says which.
WithData(raw, seconds, payer) == [raw |-> raw, seconds |-> seconds, payer |-> payer]

WriteWithData(w) == Uleb128[Len(w.payer)] \o WriteRaw(w.raw)
                      \o WriteSequence(w.seconds, WriteAddress) \o FlattenSeq(w.payer)

ReadAddresses(d) == ReadSequence(d, ReadAddress)

ReadWithData(d) ==
  Then(ReadUleb128(d), LAMBDA variant :
    IF variant.val \notin {0, 1} THEN Fail(variant)
    ELSE Then(First2(variant, ReadRaw, ReadAddresses), LAMBDA read :
           IF variant.val = 0 THEN Make(read, LAMBDA v : WithData(v[1], v[2], <<>>))
           ELSE Make(And(read, ReadAddress), LAMBDA v : WithData(v[1], v[2], <<v[3]>>))))

\* The prehashes keep messages of the two forms apart.
RawTransactionPrehash == Sha3256Hash(<<1>>)
RawTransactionWithDataPrehash == Sha3256Hash(<<2>>)

SigningMessage(raw) == RawTransactionPrehash \o WriteRaw(raw)
WithDataSigningMessage(w) == RawTransactionWithDataPrehash \o WriteWithData(w)

-----------------------------------------------------------------------------
(* Transaction authenticators: the sender's authenticator, and for the last *)
(* two forms the others' as well.                                           *)

Forms == <<"Ed25519", "MultiEd25519", "MultiAgent", "FeePayer", "SingleSender">>
FormVariant(form) == (CHOOSE i \in DOMAIN Forms : Forms[i] = form) - 1

TransactionAuthenticator(form, sender, addresses, seconds, payer, payerAuth) ==
  [form |-> form, sender |-> sender, addresses |-> addresses, seconds |-> seconds,
   payer |-> payer, payerAuth |-> payerAuth]

\* NewTransactionAuthenticator
ForSender(auth) ==
  TransactionAuthenticator(IF auth.kind \in {"Ed25519", "MultiEd25519"} THEN auth.kind
                           ELSE "SingleSender", auth, <<>>, <<>>, <<>>, <<>>)

\* ToMultiAgentSignedTransaction
MultiAgent(w, sender, seconds) ==
  TransactionAuthenticator("MultiAgent", sender, w.seconds, seconds, <<>>, <<>>)

\* ToFeePayerSignedTransaction
FeePayer(w, sender, seconds, payerAuth) ==
  TransactionAuthenticator("FeePayer", sender, w.seconds, seconds, w.payer, <<payerAuth>>)

\* One operator for each form. Multi-ed25519 senders are written with their
\* variant, and read without it.
WriteEd25519Form(t) == WriteInner(t.sender)
WriteMultiEd25519Form(t) == WriteAuthenticator(t.sender)
WriteSingleSenderForm(t) == WriteAuthenticator(t.sender)
WriteMultiAgentForm(t) == WriteAuthenticator(t.sender) \o WriteSequence(t.addresses, WriteAddress)
                            \o WriteSequence(t.seconds, WriteAuthenticator)
WriteFeePayerForm(t) == WriteMultiAgentForm(t) \o WriteAddress(t.payer[1])
                          \o WriteAuthenticator(t.payerAuth[1])

WriteTransactionAuthenticator(t) ==
  Uleb128[FormVariant(t.form)] \o CASE t.form = "Ed25519"      -> WriteEd25519Form(t)
                                    [] t.form = "MultiEd25519" -> WriteMultiEd25519Form(t)
                                    [] t.form = "SingleSender" -> WriteSingleSenderForm(t)
                                    [] t.form = "MultiAgent"   -> WriteMultiAgentForm(t)
                                    [] t.form = "FeePayer"     -> WriteFeePayerForm(t)

OfSender(form, sender) ==
  Make(sender, LAMBDA v : TransactionAuthenticator(form, v, <<>>, <<>>, <<>>, <<>>))
ReadEd25519Form(d) == OfSender("Ed25519", ReadEd25519(d))
ReadMultiEd25519Form(d) == OfSender("MultiEd25519", ReadMultiEd25519(d))
ReadSingleSenderForm(d) == OfSender("SingleSender", ReadAuthenticator(d))

\* Mutant: the others' authenticators are read and not kept.
ReadMultiAgentWithoutOthers(d) ==
  Make(And(First2(d, ReadAuthenticator, ReadAddresses), LAMBDA x : ReadSequence(x, ReadAuthenticator)),
       LAMBDA v : TransactionAuthenticator("MultiAgent", v[1], v[2], <<>>, <<>>, <<>>))

ReadMultiAgentForm(d) ==
  Make(And(First2(d, ReadAuthenticator, ReadAddresses), LAMBDA x : ReadSequence(x, ReadAuthenticator)),
       LAMBDA v : TransactionAuthenticator("MultiAgent", v[1], v[2], v[3], <<>>, <<>>))

ReadFeePayerForm(d) ==
  Make(And(First2(d, ReadMultiAgentForm, ReadAddress), ReadAuthenticator),
       LAMBDA v : [v[1] EXCEPT !.form = "FeePayer", !.payer = <<v[2]>>, !.payerAuth = <<v[3]>>])

\* This variant is a uint8, too.
ReadTransactionAuthenticator(d) ==
  Then(ReadUleb128(d), LAMBDA variant :
    LET form == variant.val % Modulo("u8")
    IN  IF ~Ok(variant) THEN variant
        ELSE CASE form = FormVariant("Ed25519")      -> ReadEd25519Form(variant)
               [] form = FormVariant("MultiEd25519") -> ReadMultiEd25519Form(variant)
               [] form = FormVariant("MultiAgent")   -> ReadMultiAgentForm(variant)
               [] form = FormVariant("FeePayer")     -> ReadFeePayerForm(variant)
               [] form = FormVariant("SingleSender") -> ReadSingleSenderForm(variant)
               [] OTHER                              -> Fail(variant))

-----------------------------------------------------------------------------
(* Signed transactions.                                                     *)

Signed(raw, auth) == [transaction |-> raw, auth |-> auth]
WriteSigned(s) == WriteRaw(s.transaction) \o WriteTransactionAuthenticator(s.auth)
ReadSigned(d) == Make(First2(d, ReadRaw, ReadTransactionAuthenticator),
                      LAMBDA v : Signed(v[1], v[2]))

\* Mutant: only the sender is verified.
VerifySenderOnly(t, msg) == VerifyAuthenticator(t.sender, msg)

\* The number of secondary authenticators is not compared with the addresses.
VerifyMultiAgentForm(t, msg) ==
  FirstNot([i \in 1 .. 1 + Len(t.seconds) |-> VerifyAuthenticator((<<t.sender>> \o t.seconds)[i], msg)])

VerifyFeePayerForm(t, msg) ==
  FirstNot(<<VerifyMultiAgentForm(t, msg), VerifyAuthenticator(t.payerAuth[1], msg)>>)

VerifyTransactionAuthenticator(t, msg) ==
  CASE t.form = "MultiAgent" -> VerifyMultiAgentForm(t, msg)
    [] t.form = "FeePayer"   -> VerifyFeePayerForm(t, msg)
    [] OTHER                 -> VerifyAuthenticator(t.sender, msg)

\* Mutant: the raw transaction is what everybody signs.
VerifySignedAsRaw(s) == VerifyTransactionAuthenticator(s.auth, SigningMessage(s.transaction))

\* SignedTransaction.Verify: only multi-agent transactions are verified as
\* transactions with data.
VerifySigned(s) ==
  VerifyTransactionAuthenticator(s.auth,
    IF s.auth.form = "MultiAgent"
    THEN WithDataSigningMessage(WithData(s.transaction, s.auth.addresses, <<>>))
    ELSE SigningMessage(s.transaction))
==============================================================================
