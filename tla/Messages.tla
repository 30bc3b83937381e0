------------------------------- MODULE Messages -------------------------------
(***************************************************************************)
(* The messages of the thirteen operations, from the wallet that builds    *)
(* one to the handler of #apply that verifies it:                          *)
(* ApplyStateMessageBuilder and its director, the normalizers, the         *)
(* protobuf codec, the schemas of check.js, the signature prechecks, the   *)
(* co-signature of the validator, the checks of #apply and those a sender  *)
(* makes of the answer.                                                    *)
(*                                                                         *)
(* Each of these places lists the fields of an operation for itself, and   *)
(* the lists have to agree.  A body is a function from field names to      *)
(* values; fields that are there and null are kept aside, in nulls.  The   *)
(* form of a value (hex or bytes, its length) is abstracted, and a hash is *)
(* what it is the hash of.                                                 *)
(***************************************************************************)
EXTENDS Integers, Sequences

CONSTANTS
  NetworkId,    \* config.networkId
  MsbBootstrap  \* config.bootstrap, Ledger's Bootstrap

-----------------------------------------------------------------------------
(* Types and fields *)

IsCoreAdmin(type) == type \in {"addAdmin", "disableInitialization"}
IsAdminControl(type) ==
  type \in {"appendWhitelist", "addIndexer", "removeIndexer", "banValidator"}
IsRoleAccess(type) == type \in {"addWriter", "removeWriter", "adminRecovery"}

\* operationToPayload
Payload(type) ==
  CASE IsCoreAdmin(type) -> "cao"
    [] IsAdminControl(type) -> "aco"
    [] IsRoleAccess(type) -> "rao"
    [] type = "tx" -> "txo"
    [] type = "bootstrapDeployment" -> "bdo"
    [] type = "transfer" -> "tro"
    [] type = "balanceInitialization" -> "bio"

\* What an operation is about, as the builder asks for it
Own == [cao |-> {"iw"}, aco |-> {"ia"}, bio |-> {"ia", "am"},
        rao |-> {"iw"}, txo |-> {"iw", "ch", "bs", "mbs"},
        bdo |-> {"bs", "ic"}, tro |-> {"to", "am"}]

\* The fields of a requester, and those the validator of a payload adds that
\* has to be co-signed
Fields(p) == {"tx", "txv", "in", "is"} \union Own[p]
Completion == {"va", "vn", "vs"}
NeedsValidator(p) == p \in {"rao", "txo", "bdo", "tro"}

-----------------------------------------------------------------------------
(* What is hashed, and in which order: by the builder, by the prechecks and *)
(* by #apply                                                               *)

BuggyBuilt == [cao |-> <<"txv", "iw", "in">>, aco |-> <<"txv", "ia", "in">>,
               bio |-> <<"txv", "am", "ia", "in">>,
               rao |-> <<"txv", "iw", "in">>,
               txo |-> <<"txv", "iw", "ch", "bs", "mbs", "in">>,
               bdo |-> <<"txv", "bs", "ic", "in">>,
               tro |-> <<"txv", "to", "am", "in">>]

Built == [cao |-> <<"txv", "iw", "in">>, aco |-> <<"txv", "ia", "in">>,
          bio |-> <<"txv", "ia", "am", "in">>,
          rao |-> <<"txv", "iw", "in">>,
          txo |-> <<"txv", "iw", "ch", "bs", "mbs", "in">>,
          bdo |-> <<"txv", "bs", "ic", "in">>,
          tro |-> <<"txv", "to", "am", "in">>]

Prechecked == [rao |-> <<"txv", "iw", "in">>,
               txo |-> <<"txv", "iw", "ch", "bs", "mbs", "in">>,
               bdo |-> <<"txv", "bs", "ic", "in">>,
               tro |-> <<"txv", "to", "am", "in">>]

Applied == [cao |-> <<"txv", "iw", "in">>, aco |-> <<"txv", "ia", "in">>,
            bio |-> <<"txv", "ia", "am", "in">>,
            rao |-> <<"txv", "iw", "in">>,
            txo |-> <<"txv", "iw", "ch", "bs", "mbs", "in">>,
            bdo |-> <<"txv", "bs", "ic", "in">>,
            tro |-> <<"txv", "to", "am", "in">>]

\* createMessage: the network first, the type last
CreateMessage(type, fields, body) ==
  <<NetworkId, [i \in DOMAIN fields |-> body[fields[i]]], type>>

ValidatorMessage(type, tx, nonce) == <<NetworkId, <<tx, nonce>>, type>>

\* wallet.sign; a signature verifies when it is this one.
Signature(wallet, hash) == <<wallet, hash>>

-----------------------------------------------------------------------------
(* On the way to the validator *)

\* A partial message, or one of the admin's, which is complete as it is.
\* `given' has a value for each field of Own.
RequesterMessage(wallet, type, given, txv, nonce) ==
  LET signed == [f \in Own[Payload(type)] \union {"txv", "in"} |->
                   CASE f = "txv" -> txv [] f = "in" -> nonce [] OTHER -> given[f]]
      tx == CreateMessage(type, Built[Payload(type)], signed)
  IN [type |-> type, address |-> wallet, nulls |-> {},
      body |-> [f \in Fields(Payload(type)) |->
                  CASE f = "tx" -> tx [] f = "is" -> Signature(wallet, tx)
                    [] OTHER -> signed[f]]]

\* normalizeMessageByOperationType takes the requester's fields and no others.
Normalized(m) ==
  [m EXCEPT !.body = [f \in Fields(Payload(m.type)) |-> m.body[f]], !.nulls = {}]

\* Operation.decode of what Operation.encode wrote: a field that was not
\* written is null.
Decoded(m) ==
  [m EXCEPT !.nulls = (IF NeedsValidator(Payload(m.type)) THEN Completion ELSE {})
                        \ DOMAIN m.body]

BuggySanitized(m) == m

\* sanitizeDecodedPartialTransaction deletes the validator's fields if null.
Sanitized(m) == [m EXCEPT !.nulls = @ \ Completion]

-----------------------------------------------------------------------------
(* Checks *)

\* The schemas: all fields, none else, none null, the validator's three of
\* them or none; only the amount of a transfer may be zero.
SchemaValid(m) ==
  LET p == Payload(m.type) IN
  /\ m.nulls = {}
  /\ \/ DOMAIN m.body = Fields(p)
     \/ NeedsValidator(p) /\ DOMAIN m.body = Fields(p) \union Completion
  /\ p = "bio" => m.body["am"] # 0

\* isPayloadSchemaValid, validateSignature, validateTransactionValidity,
\* validateMsbBootstrap
PrecheckVerifies(m, txv) ==
  LET p == Payload(m.type) IN
  /\ SchemaValid(m)
  /\ m.body["tx"] = CreateMessage(m.type, Prechecked[p], m.body)
  /\ m.body["is"] = Signature(m.address, m.body["tx"])
  /\ m.body["txv"] = txv
  /\ p = "txo" => m.body["mbs"] = MsbBootstrap

BuggyCompleted(v, m, nonce) ==
  [m EXCEPT !.body = [f \in Fields(Payload(m.type)) \union Completion |->
     CASE f = "va" -> v
       [] f = "vn" -> nonce
       [] f = "vs" -> Signature(v, ValidatorMessage(m.type, m.body["tx"], m.body["in"]))
       [] OTHER -> m.body[f]]]

\* The validator v adds its address, nonce and signature to the fields of the
\* requester, whatever else the message held.
Completed(v, m, nonce) ==
  [m EXCEPT !.body = [f \in Fields(Payload(m.type)) \union Completion |->
     CASE f = "va" -> v
       [] f = "vn" -> nonce
       [] f = "vs" -> Signature(v, ValidatorMessage(m.type, m.body["tx"], nonce))
       [] OTHER -> m.body[f]]]

\* The validator's part, as the handlers of #apply check it
CosignatureVerifies(m) ==
  /\ Completion \subseteq DOMAIN m.body
  /\ m.body["in"] # m.body["vn"]
  /\ m.address # m.body["va"]
  /\ m.body["is"] # m.body["vs"]
  /\ m.body["vs"] =
       Signature(m.body["va"], ValidatorMessage(m.type, m.body["tx"], m.body["vn"]))

\* What every handler of #apply checks before it looks at the ledger.  The
\* MSB bootstrap that is hashed is the node's own.
Verifies(m, txv) ==
  LET p == Payload(m.type)
      body == [f \in DOMAIN m.body |-> IF f = "mbs" THEN MsbBootstrap ELSE m.body[f]]
  IN
  /\ SchemaValid(m)
  /\ NeedsValidator(p) => CosignatureVerifies(m)
  /\ m.body["tx"] = CreateMessage(m.type, Applied[p], body)
  /\ m.body["is"] = Signature(m.address, m.body["tx"])
  /\ m.body["txv"] = txv

\* stripValidatorMetadata makes the validator's fields null.
Stripped(m) ==
  [m EXCEPT !.body = [f \in DOMAIN m.body \ Completion |-> m.body[f]],
            !.nulls = @ \union (DOMAIN m.body \intersect Completion)]

\* The sender's check that the operation whose publication was proven is the
\* one it asked for, and is complete
AnswerMatches(request, proven) ==
  /\ Stripped(Decoded(proven)) = Decoded(request)
  /\ SchemaValid(Decoded(proven))
  /\ "va" \in DOMAIN proven.body
=============================================================================
