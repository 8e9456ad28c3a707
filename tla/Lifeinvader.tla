---------------------------- MODULE Lifeinvader ----------------------------
(***************************************************************************)
(* The contract (Lifeinvader.sol) and the decoders of its events           *)
(* (protocol-events.ts).  A call that reverts changes nothing, so there is *)
(* one action per call that succeeds.  The contract stores identifiers     *)
(* only; what it emits is kept in `events`, in log order, each event with  *)
(* the number of its block.                                                *)
(*                                                                         *)
(* A media reference is its length.  A text is what the two programs see   *)
(* of it: the contract counts its bytes and never reads them; the client   *)
(* reads them as UTF-8, which they need not be.  An invalid byte, say, is  *)
(* read as a character of three bytes and a byte order mark as nothing: so *)
(* what is read may be longer or shorter than the bytes, or empty, and may *)
(* or may not give the same bytes when it is encoded again.                *)
(***************************************************************************)
EXTENDS Integers, Sequences, FiniteSets

CONSTANTS
    Account,     \* the accounts that call the contract
    ZeroAddress

ASSUME AccountAssumption == ZeroAddress \notin Account

\* The limits of the contract, in bytes.
MAX_BODY_BYTES == 4096
MAX_MEDIA_CID_BYTES == 128
MAX_DISPLAY_NAME_BYTES == 64
MAX_BIO_BYTES == 1024
MAX_GROUP_NAME_BYTES == 96

\* A text: its bytes, those of the string it is read as, and whether that string
\* encodes to the very bytes it was read from.
Text ==
    {t \in [bytes : Nat, read : Nat, exact : BOOLEAN] :
        /\ t.exact => t.read = t.bytes
        /\ t.bytes = 0 => t.exact}

VARIABLES
    issued,  \* [family -> how many identifiers were issued]: next...Id - 1
    block,   \* the number of the block in the making
    events   \* every event emitted

contractVars == <<issued, block, events>>

Family == {"post", "comment", "message", "group"}

ContractInit ==
    /\ issued = [f \in Family |-> 0]
    /\ block = 1
    /\ events = <<>>

MineBlock ==
    /\ block' = block + 1
    /\ UNCHANGED <<issued, events>>

Emits(event) ==
    /\ events' = Append(events, event)
    /\ block' = block

NextId(family) == issued[family] + 1

\* The next identifier of a family is used.
Issues(family) == issued' = [issued EXCEPT ![family] = NextId(family)]

Known(family, id) == id \in 1 .. issued[family]

ValidMedia(p) == p.media <= MAX_MEDIA_CID_BYTES

ValidPayload(p) ==
    /\ p.body.bytes > 0 \/ p.media > 0
    /\ p.body.bytes <= MAX_BODY_BYTES
    /\ ValidMedia(p)

publishPost(sender, p) ==
    /\ ValidPayload(p)
    /\ Issues("post")
    /\ Emits([event |-> "PostPublished", block |-> block, id |-> NextId("post"),
              account |-> sender, body |-> p.body, media |-> p.media])

publishComment(sender, postId, p) ==
    /\ Known("post", postId)
    /\ ValidPayload(p)
    /\ Issues("comment")
    /\ Emits([event |-> "CommentPublished", block |-> block,
              id |-> NextId("comment"), account |-> sender, post |-> postId,
              body |-> p.body, media |-> p.media])

publishRepost(sender, postId) ==
    /\ Known("post", postId)
    /\ Emits([event |-> "RepostPublished", block |-> block, account |-> sender,
              post |-> postId])
    /\ UNCHANGED issued

setLike(sender, kind, contentId, liked) ==
    /\ Known(kind, contentId)
    /\ Emits([event |-> "LikeSet", block |-> block, account |-> sender,
              kind |-> kind, post |-> contentId, on |-> liked])
    /\ UNCHANGED issued

setFollow(sender, followed, following) ==
    /\ followed \notin {ZeroAddress, sender}
    /\ Emits([event |-> "FollowSet", block |-> block, account |-> sender,
              other |-> followed, on |-> following])
    /\ UNCHANGED issued

setProfile(sender, p) ==
    /\ p.name.bytes <= MAX_DISPLAY_NAME_BYTES
    /\ p.bio.bytes <= MAX_BIO_BYTES
    /\ ValidMedia(p)
    /\ Emits([event |-> "ProfileSet", block |-> block, account |-> sender,
              name |-> p.name, bio |-> p.bio, media |-> p.media])
    /\ UNCHANGED issued

\* The two participants, whoever sends.
conversationId(first, second) == {first, second}

sendDirectMessage(sender, recipient, p) ==
    /\ recipient # ZeroAddress
    /\ ValidPayload(p)
    /\ Issues("message")
    /\ Emits([event |-> "DirectMessageSent", block |-> block,
              id |-> NextId("message"), account |-> sender, other |-> recipient,
              conversation |-> conversationId(sender, recipient),
              body |-> p.body, media |-> p.media])

createGroup(sender, p) ==
    /\ p.name.bytes \in 1 .. MAX_GROUP_NAME_BYTES
    /\ ValidMedia(p)
    /\ Issues("group")
    /\ Emits([event |-> "GroupCreated", block |-> block, id |-> NextId("group"),
              account |-> sender, name |-> p.name, media |-> p.media])

setGroupMembership(sender, groupId, joined) ==
    /\ Known("group", groupId)
    /\ Emits([event |-> "GroupMembershipSet", block |-> block,
              account |-> sender, group |-> groupId, on |-> joined])
    /\ UNCHANGED issued

sendGroupMessage(sender, groupId, p) ==
    /\ Known("group", groupId)
    /\ ValidPayload(p)
    /\ Issues("message")
    /\ Emits([event |-> "GroupMessageSent", block |-> block,
              id |-> NextId("message"), account |-> sender, group |-> groupId,
              body |-> p.body, media |-> p.media])

\* What may be called: by which accounts, with which texts and references.
Callable(input) ==
    /\ input.accounts \subseteq Account
    /\ input.payloads \subseteq [body : Text, media : Nat]
    /\ input.profiles \subseteq [name : Text, bio : Text, media : Nat]
    /\ input.groups \subseteq [name : Text, media : Nat]

\* Any transaction by one of the accounts of `input`, with one of its payloads,
\* profiles and groups.
Call(input) ==
    \E sender \in input.accounts :
        \/ \E p \in input.payloads :
              \/ publishPost(sender, p)
              \/ \E id \in 1 .. issued["post"] : publishComment(sender, id, p)
              \/ \E other \in Account : sendDirectMessage(sender, other, p)
              \/ \E id \in 1 .. issued["group"] : sendGroupMessage(sender, id, p)
        \/ \E id \in 1 .. issued["post"] :
              \/ publishRepost(sender, id)
              \/ \E on \in BOOLEAN : setLike(sender, "post", id, on)
        \/ \E id \in 1 .. issued["comment"], on \in BOOLEAN :
              setLike(sender, "comment", id, on)
        \/ \E other \in Account, on \in BOOLEAN : setFollow(sender, other, on)
        \/ \E p \in input.profiles : setProfile(sender, p)
        \/ \E p \in input.groups : createGroup(sender, p)
        \/ \E id \in 1 .. issued["group"], on \in BOOLEAN :
              setGroupMembership(sender, id, on)

-----------------------------------------------------------------------------
(* protocol-events.ts: what a client accepts of an event.                   *)

\* The limits of the client, in bytes.
MAX_POST_BODY_BYTES == 4096
MAX_CLIENT_MEDIA_BYTES == 128
MAX_PROFILE_DISPLAY_NAME_BYTES == 64
MAX_PROFILE_BIO_BYTES == 1024
MAX_CLIENT_GROUP_NAME_BYTES == 96

\* The limits are those of the text as it was read.
DecodablePublication(e) ==
    /\ e.body.read # 0 \/ e.media # 0
    /\ e.body.read <= MAX_POST_BODY_BYTES
    /\ e.media <= MAX_CLIENT_MEDIA_BYTES

\* The data of every other publication is compared with the encoding of what
\* was read from it.
decodePublishedPost(e) == e.id # 0 /\ DecodablePublication(e)

decodePublishedComment(e) ==
    /\ e.id # 0
    /\ e.post # 0
    /\ DecodablePublication(e)
    /\ e.body.exact

\* A like of a comment is another event family.
decodePostLikeSet(e) == e.post # 0

decodePublishedRepost(e) == e.post # 0

decodeFollowSet(e) ==
    /\ ZeroAddress \notin {e.account, e.other}
    /\ e.account # e.other

decodeProfileSet(e) ==
    /\ e.name.read <= MAX_PROFILE_DISPLAY_NAME_BYTES
    /\ e.bio.read <= MAX_PROFILE_BIO_BYTES
    /\ e.media <= MAX_CLIENT_MEDIA_BYTES
    /\ e.name.exact /\ e.bio.exact

decodePublishedDirectMessage(e) ==
    /\ e.id # 0
    /\ ZeroAddress \notin {e.account, e.other}
    /\ DecodablePublication(e)
    /\ e.conversation = {e.account, e.other}
    /\ e.body.exact

\* Mutant: the name of a group is read as the other texts are.
GroupOfText(e) ==
    /\ e.id # 0
    /\ e.account # ZeroAddress
    /\ e.name.read \in 1 .. MAX_CLIENT_GROUP_NAME_BYTES
    /\ e.media <= MAX_CLIENT_MEDIA_BYTES
    /\ e.name.exact

\* The name is decoded, counted and encoded as bytes.
decodePublishedGroup(e) ==
    /\ e.id # 0
    /\ e.account # ZeroAddress
    /\ e.name.bytes \in 1 .. MAX_CLIENT_GROUP_NAME_BYTES
    /\ e.media <= MAX_CLIENT_MEDIA_BYTES

decodeGroupMembershipSet(e) == e.group # 0 /\ e.account # ZeroAddress

decodePublishedGroupMessage(e) ==
    /\ e.group # 0
    /\ e.id # 0
    /\ e.account # ZeroAddress
    /\ DecodablePublication(e)
    /\ e.body.exact

Decodes(e) ==
    CASE e.event = "PostPublished" -> decodePublishedPost(e)
      [] e.event = "CommentPublished" -> decodePublishedComment(e)
      [] e.event = "RepostPublished" -> decodePublishedRepost(e)
      [] e.event = "LikeSet" -> e.kind = "post" => decodePostLikeSet(e)
      [] e.event = "FollowSet" -> decodeFollowSet(e)
      [] e.event = "ProfileSet" -> decodeProfileSet(e)
      [] e.event = "DirectMessageSent" -> decodePublishedDirectMessage(e)
      [] e.event = "GroupCreated" -> decodePublishedGroup(e)
      [] e.event = "GroupMembershipSet" -> decodeGroupMembershipSet(e)
      [] e.event = "GroupMessageSent" -> decodePublishedGroupMessage(e)

-----------------------------------------------------------------------------

(* Properties.                                                              *)

\* The texts that the client compares read as the bytes they are made of.  The
\* name of a group need not, and neither need the body of a post, as long as what
\* is read of it is no longer and not empty.
WellEncoded(e) ==
    CASE e.event = "PostPublished" -> e.body.exact \/ e.body.read \in 1 .. e.body.bytes
      [] e.event \in {"CommentPublished", "DirectMessageSent", "GroupMessageSent"} ->
            e.body.exact
      [] e.event = "ProfileSet" -> e.name.exact /\ e.bio.exact
      [] OTHER -> TRUE

\* Nothing but the encoding of a text makes an event undecodable: the limits of
\* contract and client, the identifiers and the participants agree, and a group
\* is decoded whatever its name is (docs/groups.md:14-16).
WellEncodedEventsDecode ==
    \A i \in 1 .. Len(events) : WellEncoded(events[i]) => Decodes(events[i])

\* Every event that a call can emit is one the client decodes, as it has to be
\* if "clients derive all social state from canonical logs" (Lifeinvader.sol:6).
\* FALSE of the code: a stream stops for good at an event that does not decode.
EveryEventDecodes == \A i \in 1 .. Len(events) : Decodes(events[i])

=============================================================================
