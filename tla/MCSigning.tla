----------------------------- MODULE MCSigning ------------------------------
(* Signing with bytes of 16 values, eighteen plans, every payload builder.   *)
EXTENDS Signing

Widths == [u8 |-> 1, u16 |-> 2, u32 |-> 3, u64 |-> 4, u128 |-> 5, u256 |-> 6]
PublicKeyLengths == [Ed25519 |-> 3, Secp256k1 |-> 5]
SignatureLengths == [Ed25519 |-> 4, Secp256k1 |-> 4]

Ed(n) == [type |-> "Ed25519", bytes |-> <<n, 9, n + 1>>]
Secp(n) == [type |-> "Secp256k1", bytes |-> <<4, n, 8, n + 2, 1>>]

TheNames == [transfer |-> <<1>>, transfer_coins |-> <<2>>, batch_transfer |-> <<3>>,
             batch_transfer_coins |-> <<4>>, endless_account |-> <<5>>, fungible_asset |-> <<6>>,
             Metadata |-> <<7>>, FungibleStore |-> <<8>>, primary_fungible_store |-> <<9>>,
             multisig_account |-> <<10>>, create_with_owners |-> <<11>>, add_owner |-> <<12>>,
             update_signatures_required |-> <<13>>, create_transaction |-> <<14>>,
             create_transaction_with_hash |-> <<15>>, approve_transaction |-> <<1, 1>>,
             code |-> <<1, 2>>, publish_package_txn |-> <<1, 3>>, account |-> <<1, 4>>,
             create_multisig_account |-> <<1, 5>>, batch_add_authentication_key |-> <<1, 6>>,
             batch_remove_authentication_key |-> <<1, 7>>, set_num_signatures_required |-> <<1, 8>>]

Dest == Account(2)
Coin == <<Account(6)>>
Metadata == NamedObjectAddress(Account(1), <<4>>)
Store == ObjectAddressFromObject(Account(3), Metadata)
Hash == <<10, 11, 12>>
AScript == Script(<<1, 2>>, <<Primitive("u128"), VectorTag(EndlessCoinTypeTag)>>,
                  <<ScriptArgument("u8", 15), ScriptArgument("u128", 70000), ScriptArgument("bool", TRUE),
                    ScriptArgument("address", Dest), ScriptArgument("serialized", <<3>>)>>)

\* Lengths of one, two and three groups, at their limits, the greatest one too.
LongScript == Script(Repeat(9, UlebMax), <<>>,
                     [k \in 1 .. 4 |-> ScriptArgument("u8vector", Repeat(k, <<7, 8, 63, 64>>[k]))])

Plan(form, kind, owners, required, others, payer, payload, amounts) ==
  [form |-> form, kind |-> kind, owners |-> owners, required |-> required,
   others |-> others, payer |-> payer, payload |-> payload, amounts |-> amounts]
One(owner, payload, amounts) ==
  Plan("Plain", IF owner.type = "Ed25519" THEN "Ed25519" ELSE "SingleSender", <<owner>>, 0, <<>>, <<>>,
       payload, amounts)

Owner(key, payload) == Plan("Plain", "MultiAuthKey", <<key>>, 0, <<>>, <<>>, payload, <<>>)

\* One owner: each payload by itself.
SinglePlans ==
  {One(Ed(1), CoinTransferPayload(Coin, Dest, 40000), <<40000>>),
   One(Secp(2), AScript, <<>>),
   One(Ed(5), LongScript, <<>>),
   One(Ed(3), Multisig(Account(5), <<MultisigOwnerPayload("add_owner", Dest)>>), <<>>),
   One(Ed(1), CoinBatchTransferPayload(Coin, <<Dest>>, <<0>>), <<0>>),
   One(Secp(4), MultisigVotePayload("approve_transaction", Account(5), 300), <<>>),
   One(Secp(6), PublishPackagePayload(<<1>>, <<<<2>>, <<>>>>), <<>>),
   One(Ed(3), MultisigCreateTransactionPayload(Account(5), MultisigChangeThresholdPayload(2)), <<>>),
   One(Secp(2), FungibleAssetPrimaryStoreTransferPayload(Metadata, Dest, 40000), <<>>),
   Owner(Ed(5), RemoveOwnerKeysPayload(<<Dest, Account(5)>>, 1)),
   Owner(Secp(4), ChangeOwnersThresholdPayload(1))}

\* Several signers: the payloads are spread over them.
JointPlans ==
  {Plan("Plain", "MultiEd25519", <<Ed(1), Ed(3)>>, 1, <<>>, <<>>,
        MultisigCreateAccountPayload(2, <<Dest>>, <<<<1>>>>, <<1, 2>>), <<>>),
   Plan("Plain", "MultiKey", <<Ed(1), Secp(2), Ed(3), Secp(4), Ed(5)>>, 2, <<>>, <<>>,
        Multisig(Account(5), <<FungibleAssetTransferPayload(Metadata, Store, Dest, 40000)>>), <<>>),
   Plan("Plain", "MultiAuthKey", <<Ed(1), Secp(2)>>, 0, <<>>, <<>>,
        CoinBatchSafeTransferPayload(<<>>, <<Dest, Store>>, <<300, 32768>>, Hash), <<300, 32768>>),
   Plan("MultiAgent", "Ed25519", <<Ed(1)>>, 0, <<Ed(3), Secp(2)>>, <<>>,
        CreateMultisigPayload(2), <<>>),
   Plan("MultiAgent", "MultiEd25519", <<Ed(1), Ed(3)>>, 2, <<Secp(2)>>, <<>>,
        MultisigCreateTransactionPayloadWithHash(Account(5), CoinTransferPayload(<<>>, Dest, 7)), <<>>),
   Plan("MultiAgent", "MultiAuthKey", <<Ed(1), Ed(5)>>, 0, <<Ed(3)>>, <<>>,
        AddOwnerKeysPayload(2), <<>>),
   Plan("FeePayer", "SingleSender", <<Ed(1)>>, 0, <<Secp(2)>>, <<Ed(3)>>,
        CoinSafeTransferPayload(Coin, Dest, 65535, Hash), <<65535>>)}

ThePlans == SinglePlans \cup JointPlans
==============================================================================
