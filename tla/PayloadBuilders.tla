--------------------------- MODULE PayloadBuilders --------------------------
(***************************************************************************)
(* The SDK's ready-made payloads: coins and fungible assets to transfer,   *)
(* on-chain multisig accounts, and packages to publish.  A name of Move    *)
(* code is a member of Names and stands for its bytes; "metadata" and      *)
(* "fungible_asset" serve as names of several things.  An optional         *)
(* argument is a sequence of at most one member.                           *)
(***************************************************************************)
EXTENDS Keys

CONSTANT Names  \* name -> its bytes

FrameworkModule(name) == ModuleId(Account(1), Names[name])

CallOf(module, function, argTypes, args) ==
  EntryFunction(FrameworkModule(module), Names[function], argTypes, args)

FrameworkStruct(module, name) == StructTag(Account(1), Names[module], Names[name], <<>>)
EndlessCoinTypeTag == FrameworkStruct("fungible_asset", "Metadata")

-----------------------------------------------------------------------------
(* Coins.                                                                   *)

\* The amount goes through int64 into a big.Int, which is serialised without
\* its sign: from 2^63 on, the distance to 2^64 is what is written.
AmountBytes(n) == LET M == Modulo("u64")
                  IN  WriteInt("u128", IF n < M \div 2 THEN n ELSE M - n)

\* With a coin the function has another name and the coin's address.
CoinCall(function, ofCoins, coin, args) ==
  IF coin = <<>> THEN CallOf("endless_account", function, <<>>, args)
  ELSE CallOf("endless_account", ofCoins, <<EndlessCoinTypeTag>>, args \o coin)

CoinTransferPayload(coin, dest, amount) ==
  CoinCall("transfer", "transfer_coins", coin, <<dest, AmountBytes(amount)>>)

CoinBatchTransferPayload(coin, dests, amounts) ==
  CoinCall("batch_transfer", "batch_transfer_coins", coin,
           <<WriteSequence(dests, WriteAddress), WriteSequence(amounts, AmountBytes)>>)

CoinSafeTransferPayload(coin, dest, amount, hash) ==
  SafeEntryFunction(CoinTransferPayload(coin, dest, amount), hash)

CoinBatchSafeTransferPayload(coin, dests, amounts, hash) ==
  SafeEntryFunction(CoinBatchTransferPayload(coin, dests, amounts), hash)

\* Fungible assets: a metadata address is needed, and amounts have 64 bits.
FungibleAssetPrimaryStoreTransferPayload(metadata, dest, amount) ==
  CallOf("primary_fungible_store", "transfer", <<FrameworkStruct("fungible_asset", "Metadata")>>,
         <<metadata, dest, U64(amount)>>)

FungibleAssetTransferPayload(metadata, source, dest, amount) ==
  CallOf("fungible_asset", "transfer", <<FrameworkStruct("fungible_asset", "FungibleStore")>>,
         <<metadata, source, dest, U64(amount)>>)

-----------------------------------------------------------------------------
(* On-chain multisig accounts and packages.                                 *)

MultisigCall(function, args) == CallOf("multisig_account", function, <<>>, args)

MultisigCreateAccountPayload(required, others, metadataKeys, metadataValues) ==
  MultisigCall("create_with_owners",
               <<WriteSequence(others, WriteAddress), U64(required),
                 WriteSequence(metadataKeys, WriteBytes), metadataValues>>)

\* add_owner and remove_owner.
MultisigOwnerPayload(function, owner) == MultisigCall(function, <<owner>>)

MultisigChangeThresholdPayload(required) ==
  MultisigCall("update_signatures_required", <<U64(required)>>)

\* The payload itself, or its hash, is an argument.
MultisigCreateTransactionPayload(multisig, call) ==
  MultisigCall("create_transaction", <<multisig, WriteBytes(WriteMultisigPayload(call))>>)

MultisigCreateTransactionPayloadWithHash(multisig, call) ==
  MultisigCall("create_transaction_with_hash",
               <<multisig, WriteBytes(Sha3256Hash(WriteMultisigPayload(call)))>>)

\* approve_transaction and reject_transaction.
MultisigVotePayload(function, multisig, id) == MultisigCall(function, <<multisig, U64(id)>>)

\* Keys of several owners on one account, as the off-chain multisig examples
\* build it: each owner removed is written as bytes, behind its length.
OwnersCall(function, args) == CallOf("account", function, <<>>, args)

CreateMultisigPayload(threshold) == OwnersCall("create_multisig_account", <<U64(threshold)>>)

AddOwnerKeysPayload(threshold) == OwnersCall("batch_add_authentication_key", <<U64(threshold)>>)

RemoveOwnerKeysPayload(removed, threshold) ==
  OwnersCall("batch_remove_authentication_key", <<WriteSequence(removed, WriteBytes), U64(threshold)>>)

ChangeOwnersThresholdPayload(threshold) ==
  OwnersCall("set_num_signatures_required", <<U64(threshold)>>)

PublishPackagePayload(metadata, bytecode) ==
  CallOf("code", "publish_package_txn", <<>>,
         <<WriteBytes(metadata), WriteSequence(bytecode, WriteBytes)>>)
==============================================================================
