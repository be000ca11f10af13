------------------------- MODULE MessageAnonymizer -------------------------
(***************************************************************************)
(* The helper contract: WriteOnce storage for sealed messages, written     *)
(* only through the privacy pool's dispatch.                               *)
(*                                                                         *)
(* msg_id = h(tag, channel_key, index) is the pair <<lane, index>>: the    *)
(* hash is taken to be injective.  A ciphertext is one value (the message  *)
(* it seals): its felts are written and read back as a whole.  A slot that *)
(* is not in the storage map has length 0.                                 *)
(***************************************************************************)
EXTENDS Naturals, Sequences

CONSTANTS
  Lanes,          \* channel keys
  Payloads,       \* ciphertexts, told apart by the message they seal
  EmptyPayload,   \* a ciphertext of no felts; no client seals one
  Pool            \* the only caller the contract serves

ASSUME EmptyPayloadAssumption == EmptyPayload \notin Payloads

VARIABLE slot     \* storage: a function from the occupied msg_ids to ciphertexts

MsgId == Lanes \X Nat
Message == [msg_id : MsgId, ciphertext : Payloads \cup {EmptyPayload}]

SlotInit == slot = [id \in {} |-> EmptyPayload]

\* slot_len(id) > 0, the test every walk makes.
Occupied(lane, index) == <<lane, index>> \in DOMAIN slot

-----------------------------------------------------------------------------
\* A copy of Accepts in which a slot that is already occupied is tolerated.
AcceptsOccupied(caller, messages) == caller = Pool /\ messages # <<>>

\* The asserts of privacy_invoke, message by message: a later message of the
\* batch sees what the earlier ones wrote, so a repeated id is an occupied slot.
Accepts(caller, messages) ==
  /\ caller = Pool
  /\ messages # <<>>
  /\ \A k \in DOMAIN messages :
       /\ messages[k].msg_id \notin DOMAIN slot \cup {messages[j].msg_id : j \in 1..k-1}
       /\ messages[k].ciphertext # EmptyPayload

CiphertextFor(messages, id) ==
  messages[CHOOSE k \in DOMAIN messages : messages[k].msg_id = id].ciphertext

\* The transaction is atomic: either every message of the batch is stored, or
\* an assert fails, the transaction reverts and nothing is.
Store(messages) ==
  LET ids == {messages[k].msg_id : k \in DOMAIN messages}
  IN  slot' = [id \in DOMAIN slot \cup ids |->
                 IF id \in ids THEN CiphertextFor(messages, id) ELSE slot[id]]

PrivacyInvoke(caller, messages) ==
  IF Accepts(caller, messages) THEN Store(messages) ELSE UNCHANGED slot
=============================================================================
