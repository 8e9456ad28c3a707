------------------------- MODULE ReadModels_proofs -------------------------
(***************************************************************************)
(* The read models, from the contract to the page.  A projection keeps     *)
(* what the events it was given come to, whatever their pages were         *)
(* (Projections), and a page shows a projection run that has folded        *)
(* exactly the logs of the scopes it read, resumed or not, whatever the    *)
(* calls that drive it have come to meanwhile (Reader).                    *)
(***************************************************************************)
EXTENDS Reader, Cursors_proofs, Projections, SequenceTheorems,
        FiniteSetTheorems, FunctionTheorems, WellFoundedInduction,
        NaturalsInduction, TLAPS

-----------------------------------------------------------------------------
(* The contract.                                                            *)

Happenings == {"PostPublished", "CommentPublished", "RepostPublished", "LikeSet",
               "FollowSet", "ProfileSet", "DirectMessageSent", "GroupCreated",
               "GroupMembershipSet", "GroupMessageSent"}

\* What the projections rely on in an event, besides that it decodes.
WellFormed(e) ==
    /\ e.event \in Happenings
    /\ e.account \in Account
    /\ e.event = "FollowSet" => e.other \in Account /\ e.on \in BOOLEAN
    /\ e.event = "GroupMembershipSet" => e.on \in BOOLEAN
    /\ e.event = "LikeSet" => /\ e.kind \in {"post", "comment"}
                              /\ e.post \in 1 .. issued[e.kind]
                              /\ e.on \in BOOLEAN
    /\ e.event \in {"RepostPublished", "CommentPublished"} =>
          e.post \in 1 .. issued["post"]
    /\ e.event = "CommentPublished" => e.id \in Nat

\* What the contract emits decodes, if its texts are what a client can read.
Readable(e) == WellEncoded(e) => Decodes(e)

ContractTypes ==
    /\ issued \in [Family -> Nat]
    /\ block \in Nat \ {0}
    /\ \E S : events \in Seq(S)

\* A call emits one event in the block in the making, counts what it issues, and
\* emits what the client can decode if it is well encoded.
Called(e) ==
    /\ events' = Append(events, e)
    /\ block' = block
    /\ e.block = block
    /\ WellFormed(e)
    /\ Readable(e)
    /\ issued' \in [Family -> Nat]
    /\ \A f \in Family : issued[f] <= issued'[f]
    /\ IF e.event = "CommentPublished"
       THEN e.id = issued["comment"] + 1 /\ issued'["comment"] = issued["comment"] + 1
       ELSE issued'["comment"] = issued["comment"]

\* A post is emitted so that the client decodes it, if it is well encoded.
LEMMA PostCall ==
    ASSUME ContractTypes, NEW sender \in Account, NEW p \in [body : Text,
           media : Nat],
           publishPost(sender, p)
    PROVE  \E e : Called(e)
<1>. DEFINE e == [event |-> "PostPublished", block |-> block,
                  id |-> NextId("post"), account |-> sender, body |-> p.body,
                  media |-> p.media]
<1>1. events' = Append(events, e) /\ block' = block
  BY DEF publishPost, Emits, NextId
<1>2. issued' \in [Family -> Nat] /\ \A f \in Family : issued[f] <= issued'[f]
  BY DEF publishPost, ContractTypes, Family, Issues, NextId
<1>3. WellFormed(e)
  BY DEF publishPost, WellFormed, Happenings, ContractTypes, Family, Known,
     NextId
<1>4. Readable(e)
  BY AccountAssumption
  DEF publishPost, Readable, WellEncoded, Decodes, decodePublishedPost,
     ContractTypes, Family, Known, Text, ValidPayload, ValidMedia,
     DecodablePublication, NextId, MAX_BODY_BYTES,
      MAX_MEDIA_CID_BYTES, MAX_POST_BODY_BYTES, MAX_CLIENT_MEDIA_BYTES
<1>5. IF e.event = "CommentPublished"
      THEN e.id = issued["comment"] + 1 /\ issued'["comment"] = issued["comment"] + 1
      ELSE issued'["comment"] = issued["comment"]
  BY DEF publishPost, ContractTypes, Family, NextId, Issues
<1>. QED
  BY <1>1, <1>2, <1>3, <1>4, <1>5 DEF Called

\* So is a comment, with the next number.
LEMMA CommentCall ==
    ASSUME ContractTypes, NEW sender \in Account, NEW post,
           NEW p \in [body : Text, media : Nat],
           publishComment(sender, post, p)
    PROVE  \E e : Called(e)
<1>. DEFINE e == [event |-> "CommentPublished", block |-> block,
                  id |-> NextId("comment"), account |-> sender, post |-> post,
                  body |-> p.body, media |-> p.media]
<1>1. events' = Append(events, e) /\ block' = block
  BY DEF publishComment, Emits, NextId
<1>2. issued' \in [Family -> Nat] /\ \A f \in Family : issued[f] <= issued'[f]
  BY DEF publishComment, ContractTypes, Family, Issues, NextId
<1>3. WellFormed(e)
  BY DEF publishComment, WellFormed, Happenings, ContractTypes, Family, Known,
     NextId
<1>4. Readable(e)
  BY AccountAssumption
  DEF publishComment, Readable, WellEncoded, Decodes, decodePublishedComment,
     ContractTypes, Family, Known, Text, ValidPayload, ValidMedia,
     DecodablePublication, NextId, MAX_BODY_BYTES,
      MAX_MEDIA_CID_BYTES, MAX_POST_BODY_BYTES, MAX_CLIENT_MEDIA_BYTES
<1>5. IF e.event = "CommentPublished"
      THEN e.id = issued["comment"] + 1 /\ issued'["comment"] = issued["comment"] + 1
      ELSE issued'["comment"] = issued["comment"]
  BY DEF publishComment, ContractTypes, Family, NextId, Issues
<1>. QED
  BY <1>1, <1>2, <1>3, <1>4, <1>5 DEF Called

\* So is a repost.
LEMMA RepostCall ==
    ASSUME ContractTypes, NEW sender \in Account, NEW post,
           publishRepost(sender, post)
    PROVE  \E e : Called(e)
<1>. DEFINE e == [event |-> "RepostPublished", block |-> block,
                  account |-> sender, post |-> post]
<1>1. events' = Append(events, e) /\ block' = block
  BY DEF publishRepost, Emits
<1>2. issued' \in [Family -> Nat] /\ \A f \in Family : issued[f] <= issued'[f]
  BY DEF publishRepost, ContractTypes, Family
<1>3. WellFormed(e)
  BY DEF publishRepost, WellFormed, Happenings, ContractTypes, Family, Known,
     NextId
<1>4. Readable(e)
  BY AccountAssumption
  DEF publishRepost, Readable, WellEncoded, Decodes, decodePublishedRepost,
     ContractTypes, Family, Known
<1>5. IF e.event = "CommentPublished"
      THEN e.id = issued["comment"] + 1 /\ issued'["comment"] = issued["comment"] + 1
      ELSE issued'["comment"] = issued["comment"]
  BY DEF publishRepost, ContractTypes, Family, NextId
<1>. QED
  BY <1>1, <1>2, <1>3, <1>4, <1>5 DEF Called

\* So is a like.
LEMMA LikeCall ==
    ASSUME ContractTypes, NEW sender \in Account, NEW what \in {"post",
           "comment"}, NEW id, NEW on \in BOOLEAN,
           setLike(sender, what, id, on)
    PROVE  \E e : Called(e)
<1>. DEFINE e == [event |-> "LikeSet", block |-> block, account |-> sender,
                  kind |-> what, post |-> id, on |-> on]
<1>1. events' = Append(events, e) /\ block' = block
  BY DEF setLike, Emits
<1>2. issued' \in [Family -> Nat] /\ \A f \in Family : issued[f] <= issued'[f]
  BY DEF setLike, ContractTypes, Family
<1>3. WellFormed(e)
  BY DEF setLike, WellFormed, Happenings, ContractTypes, Family, Known, NextId
<1>4. Readable(e)
  BY AccountAssumption
  DEF setLike, Readable, WellEncoded, Decodes, decodePostLikeSet,
     ContractTypes, Family, Known
<1>5. IF e.event = "CommentPublished"
      THEN e.id = issued["comment"] + 1 /\ issued'["comment"] = issued["comment"] + 1
      ELSE issued'["comment"] = issued["comment"]
  BY DEF setLike, ContractTypes, Family, NextId
<1>. QED
  BY <1>1, <1>2, <1>3, <1>4, <1>5 DEF Called

\* So is a follow.
LEMMA FollowCall ==
    ASSUME ContractTypes, NEW sender \in Account, NEW other \in Account,
           NEW on \in BOOLEAN,
           setFollow(sender, other, on)
    PROVE  \E e : Called(e)
<1>. DEFINE e == [event |-> "FollowSet", block |-> block, account |-> sender,
                  other |-> other, on |-> on]
<1>1. events' = Append(events, e) /\ block' = block
  BY DEF setFollow, Emits
<1>2. issued' \in [Family -> Nat] /\ \A f \in Family : issued[f] <= issued'[f]
  BY DEF setFollow, ContractTypes, Family
<1>3. WellFormed(e)
  BY DEF setFollow, WellFormed, Happenings, ContractTypes, Family, Known, NextId
<1>4. Readable(e)
  BY AccountAssumption
  DEF setFollow, Readable, WellEncoded, Decodes, decodeFollowSet,
     ContractTypes, Family, Known
<1>5. IF e.event = "CommentPublished"
      THEN e.id = issued["comment"] + 1 /\ issued'["comment"] = issued["comment"] + 1
      ELSE issued'["comment"] = issued["comment"]
  BY DEF setFollow, ContractTypes, Family, NextId
<1>. QED
  BY <1>1, <1>2, <1>3, <1>4, <1>5 DEF Called

\* So is a profile.
LEMMA ProfileCall ==
    ASSUME ContractTypes, NEW sender \in Account, NEW p \in [name : Text,
           bio : Text, media : Nat],
           setProfile(sender, p)
    PROVE  \E e : Called(e)
<1>. DEFINE e == [event |-> "ProfileSet", block |-> block, account |-> sender,
                  name |-> p.name, bio |-> p.bio, media |-> p.media]
<1>1. events' = Append(events, e) /\ block' = block
  BY DEF setProfile, Emits
<1>2. issued' \in [Family -> Nat] /\ \A f \in Family : issued[f] <= issued'[f]
  BY DEF setProfile, ContractTypes, Family
<1>3. WellFormed(e)
  BY DEF setProfile, WellFormed, Happenings, ContractTypes, Family, Known,
     NextId
<1>4. Readable(e)
  BY AccountAssumption
  DEF setProfile, Readable, WellEncoded, Decodes, decodeProfileSet,
     ContractTypes, Family, Known, Text, ValidMedia, MAX_DISPLAY_NAME_BYTES,
      MAX_BIO_BYTES, MAX_MEDIA_CID_BYTES, MAX_PROFILE_DISPLAY_NAME_BYTES,
      MAX_PROFILE_BIO_BYTES, MAX_CLIENT_MEDIA_BYTES
<1>5. IF e.event = "CommentPublished"
      THEN e.id = issued["comment"] + 1 /\ issued'["comment"] = issued["comment"] + 1
      ELSE issued'["comment"] = issued["comment"]
  BY DEF setProfile, ContractTypes, Family, NextId
<1>. QED
  BY <1>1, <1>2, <1>3, <1>4, <1>5 DEF Called

\* So is a direct message.
LEMMA DirectMessageCall ==
    ASSUME ContractTypes, NEW sender \in Account, NEW other \in Account,
           NEW p \in [body : Text, media : Nat],
           sendDirectMessage(sender, other, p)
    PROVE  \E e : Called(e)
<1>. DEFINE e == [event |-> "DirectMessageSent", block |-> block,
                  id |-> NextId("message"), account |-> sender,
                  other |-> other, conversation |-> conversationId(sender,
                  other), body |-> p.body, media |-> p.media]
<1>1. events' = Append(events, e) /\ block' = block
  BY DEF sendDirectMessage, Emits, NextId
<1>2. issued' \in [Family -> Nat] /\ \A f \in Family : issued[f] <= issued'[f]
  BY DEF sendDirectMessage, ContractTypes, Family, Issues, NextId
<1>3. WellFormed(e)
  BY DEF sendDirectMessage, WellFormed, Happenings, ContractTypes, Family,
     Known, NextId
<1>4. Readable(e)
  BY AccountAssumption
  DEF sendDirectMessage, Readable, WellEncoded, Decodes,
     decodePublishedDirectMessage, conversationId, ContractTypes, Family,
     Known, Text, ValidPayload, ValidMedia, DecodablePublication, NextId,
     MAX_BODY_BYTES,
      MAX_MEDIA_CID_BYTES, MAX_POST_BODY_BYTES, MAX_CLIENT_MEDIA_BYTES
<1>5. IF e.event = "CommentPublished"
      THEN e.id = issued["comment"] + 1 /\ issued'["comment"] = issued["comment"] + 1
      ELSE issued'["comment"] = issued["comment"]
  BY DEF sendDirectMessage, ContractTypes, Family, NextId, Issues
<1>. QED
  BY <1>1, <1>2, <1>3, <1>4, <1>5 DEF Called

\* So is a group.
LEMMA GroupCall ==
    ASSUME ContractTypes, NEW sender \in Account, NEW p \in [name : Text,
           media : Nat],
           createGroup(sender, p)
    PROVE  \E e : Called(e)
<1>. DEFINE e == [event |-> "GroupCreated", block |-> block,
                  id |-> NextId("group"), account |-> sender, name |-> p.name,
                  media |-> p.media]
<1>1. events' = Append(events, e) /\ block' = block
  BY DEF createGroup, Emits, NextId
<1>2. issued' \in [Family -> Nat] /\ \A f \in Family : issued[f] <= issued'[f]
  BY DEF createGroup, ContractTypes, Family, Issues, NextId
<1>3. WellFormed(e)
  BY DEF createGroup, WellFormed, Happenings, ContractTypes, Family, Known,
     NextId
<1>4. Readable(e)
  BY AccountAssumption
  DEF createGroup, Readable, WellEncoded, Decodes, decodePublishedGroup,
     ContractTypes, Family, Known, Text, ValidMedia, NextId,
     MAX_GROUP_NAME_BYTES,
      MAX_MEDIA_CID_BYTES, MAX_CLIENT_GROUP_NAME_BYTES, MAX_CLIENT_MEDIA_BYTES
<1>5. IF e.event = "CommentPublished"
      THEN e.id = issued["comment"] + 1 /\ issued'["comment"] = issued["comment"] + 1
      ELSE issued'["comment"] = issued["comment"]
  BY DEF createGroup, ContractTypes, Family, NextId, Issues
<1>. QED
  BY <1>1, <1>2, <1>3, <1>4, <1>5 DEF Called

\* So is a membership.
LEMMA MembershipCall ==
    ASSUME ContractTypes, NEW sender \in Account, NEW group, NEW on \in BOOLEAN,
           setGroupMembership(sender, group, on)
    PROVE  \E e : Called(e)
<1>. DEFINE e == [event |-> "GroupMembershipSet", block |-> block,
                  account |-> sender, group |-> group, on |-> on]
<1>1. events' = Append(events, e) /\ block' = block
  BY DEF setGroupMembership, Emits
<1>2. issued' \in [Family -> Nat] /\ \A f \in Family : issued[f] <= issued'[f]
  BY DEF setGroupMembership, ContractTypes, Family
<1>3. WellFormed(e)
  BY DEF setGroupMembership, WellFormed, Happenings, ContractTypes, Family,
     Known, NextId
<1>4. Readable(e)
  BY AccountAssumption
  DEF setGroupMembership, Readable, WellEncoded, Decodes,
     decodeGroupMembershipSet, ContractTypes, Family, Known
<1>5. IF e.event = "CommentPublished"
      THEN e.id = issued["comment"] + 1 /\ issued'["comment"] = issued["comment"] + 1
      ELSE issued'["comment"] = issued["comment"]
  BY DEF setGroupMembership, ContractTypes, Family, NextId
<1>. QED
  BY <1>1, <1>2, <1>3, <1>4, <1>5 DEF Called

\* So is a message to a group.
LEMMA GroupMessageCall ==
    ASSUME ContractTypes, NEW sender \in Account, NEW group,
           NEW p \in [body : Text, media : Nat],
           sendGroupMessage(sender, group, p)
    PROVE  \E e : Called(e)
<1>. DEFINE e == [event |-> "GroupMessageSent", block |-> block,
                  id |-> NextId("message"), account |-> sender,
                  group |-> group, body |-> p.body, media |-> p.media]
<1>1. events' = Append(events, e) /\ block' = block
  BY DEF sendGroupMessage, Emits, NextId
<1>2. issued' \in [Family -> Nat] /\ \A f \in Family : issued[f] <= issued'[f]
  BY DEF sendGroupMessage, ContractTypes, Family, Issues, NextId
<1>3. WellFormed(e)
  BY DEF sendGroupMessage, WellFormed, Happenings, ContractTypes, Family,
     Known, NextId
<1>4. Readable(e)
  BY AccountAssumption
  DEF sendGroupMessage, Readable, WellEncoded, Decodes,
     decodePublishedGroupMessage, ContractTypes, Family, Known, Text,
     ValidPayload, ValidMedia, DecodablePublication, NextId, MAX_BODY_BYTES,
      MAX_MEDIA_CID_BYTES, MAX_POST_BODY_BYTES, MAX_CLIENT_MEDIA_BYTES
<1>5. IF e.event = "CommentPublished"
      THEN e.id = issued["comment"] + 1 /\ issued'["comment"] = issued["comment"] + 1
      ELSE issued'["comment"] = issued["comment"]
  BY DEF sendGroupMessage, ContractTypes, Family, NextId, Issues
<1>. QED
  BY <1>1, <1>2, <1>3, <1>4, <1>5 DEF Called

\* Every call emits one event as described.
LEMMA EveryCall ==
    ASSUME ContractTypes, NEW input, Callable(input), Call(input)
    PROVE  \E e : Called(e)
<1>1. PICK sender \in input.accounts :
        \/ \E p \in input.payloads :
              \/ publishPost(sender, p)
              \/ \E id \in 1 .. issued["post"] : publishComment(sender, id, p)
              \/ \E other \in Account : sendDirectMessage(sender, other, p)
              \/ \E id \in 1 .. issued["group"] : sendGroupMessage(sender, id, p)
        \/ \E id \in 1 .. issued["post"] :
              \/ publishRepost(sender, id)
              \/ \E on \in BOOLEAN : setLike(sender, "post", id, on)
        \/ \E id \in 1 .. issued["comment"], on \in BOOLEAN :
              setLike(sender, "comment", id, on)
        \/ \E other \in Account, on \in BOOLEAN : setFollow(sender, other, on)
        \/ \E p \in input.profiles : setProfile(sender, p)
        \/ \E p \in input.groups : createGroup(sender, p)
        \/ \E id \in 1 .. issued["group"], on \in BOOLEAN :
              setGroupMembership(sender, id, on)
  BY DEF Call
<1>2. sender \in Account
  BY DEF Callable
<1>3. CASE \E p \in input.payloads :
              \/ publishPost(sender, p)
              \/ \E id \in 1 .. issued["post"] : publishComment(sender, id, p)
              \/ \E other \in Account : sendDirectMessage(sender, other, p)
              \/ \E id \in 1 .. issued["group"] : sendGroupMessage(sender, id, p)
  <2>1. PICK p \in input.payloads :
              \/ publishPost(sender, p)
              \/ \E id \in 1 .. issued["post"] : publishComment(sender, id, p)
              \/ \E other \in Account : sendDirectMessage(sender, other, p)
              \/ \E id \in 1 .. issued["group"] : sendGroupMessage(sender, id, p)
    BY <1>3
  <2>2. p \in [body : Text, media : Nat]
    BY DEF Callable
  <2>. QED
    BY <1>2, <2>1, <2>2, PostCall, CommentCall, DirectMessageCall,
       GroupMessageCall
<1>4. CASE \E id \in 1 .. issued["post"] :
              \/ publishRepost(sender, id)
              \/ \E on \in BOOLEAN : setLike(sender, "post", id, on)
  BY <1>2, <1>4, RepostCall, LikeCall
<1>5. CASE \E id \in 1 .. issued["comment"], on \in BOOLEAN :
              setLike(sender, "comment", id, on)
  BY <1>2, <1>5, LikeCall
<1>6. CASE \E other \in Account, on \in BOOLEAN : setFollow(sender, other, on)
  BY <1>2, <1>6, FollowCall
<1>7. CASE \E p \in input.profiles : setProfile(sender, p)
  BY <1>2, <1>7, ProfileCall DEF Callable
<1>8. CASE \E p \in input.groups : createGroup(sender, p)
  BY <1>2, <1>8, GroupCall DEF Callable
<1>9. CASE \E id \in 1 .. issued["group"], on \in BOOLEAN :
              setGroupMembership(sender, id, on)
  BY <1>2, <1>9, MembershipCall
<1>. QED
  BY <1>1, <1>3, <1>4, <1>5, <1>6, <1>7, <1>8, <1>9

\* g is what a page makes of the kept state, event by event.
Folding(g, s, page, n) ==
    g = [i \in 0 .. n |->
            IF i = 0 THEN kept
            ELSE IF i \in page THEN Fold(s, g[i - 1], i) ELSE g[i - 1]]

\* There is such a function for every number of events.
LEMMA FoldingExists ==
    ASSUME NEW s, NEW page
    PROVE  \A n \in Nat : \E g : Folding(g, s, page, n)
<1>. DEFINE T == {n \in Nat : ~ \E g : Folding(g, s, page, n)}
<1>. SUFFICES ASSUME T # {}  PROVE FALSE
  OBVIOUS
<1>1. PICK m \in T : \A y \in T : m <= y
  <2>. T \in SUBSET Nat
    OBVIOUS
  <2>. HIDE DEF T
  <2>. QED
    BY LeastNumber
<1>2. CASE m = 0
  <2>. DEFINE g == [i \in 0 .. 0 |-> kept]
  <2>1. Folding(g, s, page, 0)
    BY DEF Folding
  <2>. QED
    BY <1>2, <2>1
<1>3. CASE m # 0
  <2>1. m - 1 \in Nat /\ m - 1 \notin T
    BY <1>1, <1>3
  <2>2. PICK g : Folding(g, s, page, m - 1)
    BY <2>1
  <2>. DEFINE new == IF m \in page THEN Fold(s, g[m - 1], m) ELSE g[m - 1]
              h == [i \in 0 .. m |-> IF i = m THEN new ELSE g[i]]
  <2>3. \A i \in 0 .. m - 1 : h[i] = g[i]
    BY <2>1
  <2>4. \A i \in 0 .. m - 1 :
            g[i] = IF i = 0 THEN kept
                   ELSE IF i \in page THEN Fold(s, g[i - 1], i) ELSE g[i - 1]
    BY <2>2 DEF Folding
  <2>5. h[m] = new
    OBVIOUS
  <2>. HIDE DEF h
  <2>6. \A i \in 0 .. m :
            h[i] = IF i = 0 THEN kept
                   ELSE IF i \in page THEN Fold(s, h[i - 1], i) ELSE h[i - 1]
    <3>. SUFFICES ASSUME NEW i \in 0 .. m
                  PROVE  h[i] = IF i = 0 THEN kept
                                ELSE IF i \in page THEN Fold(s, h[i - 1], i)
                                ELSE h[i - 1]
      OBVIOUS
    <3>1. CASE i = m
      <4>1. m - 1 \in 0 .. m - 1
        BY <2>1
      <4>2. h[m - 1] = g[m - 1]
        BY <2>3, <4>1
      <4>. QED
        BY <1>3, <2>5, <3>1, <4>2
    <3>2. CASE i # m
      <4>1. i \in 0 .. m - 1 /\ (i # 0 => i - 1 \in 0 .. m - 1)
        BY <3>2, <2>1
      <4>2. h[i] = g[i] /\ (i # 0 => h[i - 1] = g[i - 1])
        BY <2>3, <4>1
      <4>. QED
        BY <2>4, <4>1, <4>2
    <3>. QED
      BY <3>1, <3>2
  <2>7. h = [i \in 0 .. m |-> h[i]]
    BY DEF h
  <2>8. Folding(h, s, page, m)
    BY <2>6, <2>7 DEF Folding
  <2>. QED
    BY <2>8
<1>. QED
  BY <1>2, <1>3

\* What a page leaves, by its definition.
LEMMA AfterPageFolds ==
    ASSUME NEW s, NEW page, Len(events) \in Nat
    PROVE  \E g : /\ g[0] = kept
                  /\ \A i \in 1 .. Len(events) :
                        g[i] = IF i \in page THEN Fold(s, g[i - 1], i) ELSE g[i - 1]
                  /\ AfterPage(s, page) = g[Len(events)]
<1>. DEFINE n == Len(events)
            f == CHOOSE g : Folding(g, s, page, n)
<1>1. Folding(f, s, page, n)
  <2>1. \E g : Folding(g, s, page, n)
    BY FoldingExists
  <2>. QED
    BY <2>1
<1>2. AfterPage(s, page) = f[n]
  BY DEF AfterPage, Folding
<1>. HIDE DEF f
<1>3. \A i \in 0 .. n :
        f[i] = IF i = 0 THEN kept
               ELSE IF i \in page THEN Fold(s, f[i - 1], i) ELSE f[i - 1]
  BY <1>1 DEF Folding
<1>4. f[0] = kept
  BY <1>3
<1>5. \A i \in 1 .. n :
        f[i] = IF i \in page THEN Fold(s, f[i - 1], i) ELSE f[i - 1]
  BY <1>3
<1>. QED
  BY <1>2, <1>4, <1>5

-----------------------------------------------------------------------------
(* Addresses and their prefixes.                                            *)

\* An address is the sequence of its hexadecimal digits.
LEMMA AccountIsSequence ==
    ASSUME NEW a \in Account
    PROVE  /\ a \in Seq(0 .. 15) /\ Len(a) = DigitCount
           /\ a = [j \in 1 .. DigitCount |-> a[j]]
           /\ \A j \in 1 .. DigitCount : a[j] \in 0 .. 15
           /\ DigitCount \in Nat \ {0}
<1>1. DigitCount \in Nat \ {0} /\ a \in [1 .. DigitCount -> 0 .. 15]
  BY ProjectionAssumption
<1>. QED
  BY <1>1

\* The first digits of an address.
LEMMA BeginningOf ==
    ASSUME NEW a \in Account, NEW n \in 0 .. DigitCount
    PROVE  /\ SubSeq(a, 1, n) = [j \in 1 .. n |-> a[j]]
           /\ SubSeq(a, 1, n) \in Seq(0 .. 15)
           /\ Len(SubSeq(a, 1, n)) = n
<1>1. a \in Seq(0 .. 15) /\ Len(a) = DigitCount /\ DigitCount \in Nat
  BY AccountIsSequence
<1>. QED
  BY <1>1

\* A prefix of an address is its first digits.
LEMMA PrefixIs ==
    ASSUME NEW a \in Account, NEW p \in Prefixes(a)
    PROVE  /\ Len(p) \in 1 .. DigitCount
           /\ p = [j \in 1 .. Len(p) |-> a[j]]
           /\ p = SubSeq(a, 1, Len(p))
<1>1. PICK n \in 1 .. DigitCount : p = SubSeq(a, 1, n)
  BY DEF Prefixes
<1>2. DigitCount \in Nat /\ n \in 0 .. DigitCount
  BY AccountIsSequence
<1>. QED
  BY <1>1, <1>2, BeginningOf

\* An address is a prefix of itself.
LEMMA WholeIsPrefix ==
    ASSUME NEW a \in Account
    PROVE  a \in Prefixes(a)
<1>1. DigitCount \in 1 .. DigitCount /\ DigitCount \in 0 .. DigitCount
  BY AccountIsSequence
<1>2. SubSeq(a, 1, DigitCount) = a
  BY <1>1, BeginningOf, AccountIsSequence
<1>. QED
  BY <1>1, <1>2 DEF Prefixes

\* No other address is.
LEMMA OnlyOwnWhole ==
    ASSUME NEW a \in Account, NEW b \in Account, b \in Prefixes(a)
    PROVE  a = b
  BY PrefixIs, AccountIsSequence

\* What begins a prefix of an address begins the address.
LEMMA PrefixOfPrefix ==
    ASSUME NEW a \in Account, NEW p, NEW q \in Prefixes(a), IsPrefix(p, q),
           Len(p) \in Nat \ {0}
    PROVE  p \in Prefixes(a)
<1>1. Len(q) \in 1 .. DigitCount /\ q = [j \in 1 .. Len(q) |-> a[j]]
      /\ DigitCount \in Nat
  BY PrefixIs, AccountIsSequence
<1>2. q \in Seq(0 .. 15)
  <2>1. q = SubSeq(a, 1, Len(q)) /\ Len(q) \in 0 .. DigitCount
    BY <1>1, PrefixIs
  <2>2. SubSeq(a, 1, Len(q)) \in Seq(0 .. 15)
    BY <2>1, BeginningOf
  <2>. QED
    BY <2>1, <2>2
<1>3. Len(p) \in 1 .. Len(q) /\ SubSeq(q, 1, Len(p)) = p
  BY <1>1 DEF IsPrefix
<1>4. SubSeq(q, 1, Len(p)) = [j \in 1 .. Len(p) |-> q[j]]
  BY <1>2, <1>3
<1>5. Len(p) \in 1 .. DigitCount /\ Len(p) \in 0 .. DigitCount
  BY <1>1, <1>3
<1>6. SubSeq(a, 1, Len(p)) = [j \in 1 .. Len(p) |-> a[j]]
  BY <1>5, BeginningOf
<1>7. \A j \in 1 .. Len(p) : q[j] = a[j]
  BY <1>1, <1>3
<1>. QED
  BY <1>3, <1>4, <1>5, <1>6, <1>7 DEF Prefixes

\* A prefix of an address begins it.
LEMMA PrefixBegins ==
    ASSUME NEW a \in Account, NEW p \in Prefixes(a)
    PROVE  IsPrefix(p, a) /\ Len(p) \in Nat \ {0}
  BY PrefixIs, AccountIsSequence DEF IsPrefix

\* A leaf that goes takes along exactly the nodes no other address needs.
LEMMA PruneIsExact ==
    ASSUME NEW on \in SUBSET Account, NEW a \in on
    PROVE  Prune(UNION {Prefixes(b) : b \in on}, a)
               = UNION {Prefixes(b) : b \in on \ {a}}
<1>. DEFINE index == UNION {Prefixes(b) : b \in on}
            kept1 == UNION {Prefixes(b) : b \in on \ {a}}
<1>1. ASSUME NEW p \in kept1  PROVE p \in Prune(index, a)
  <2>1. PICK b \in on \ {a} : p \in Prefixes(b)
    OBVIOUS
  <2>2. b \in index /\ IsPrefix(p, b) /\ b \notin Prefixes(a) /\ p \in index
    BY <2>1, WholeIsPrefix, PrefixBegins, OnlyOwnWhole
  <2>. QED
    BY <2>2 DEF Prune
<1>2. ASSUME NEW p \in Prune(index, a)  PROVE p \in kept1
  <2>1. PICK b \in on : p \in Prefixes(b)
    BY DEF Prune
  <2>2. CASE b # a
    BY <2>1, <2>2
  <2>3. CASE b = a
    <3>1. PICK q \in index : IsPrefix(p, q) /\ q \notin Prefixes(a)
      BY <2>1, <2>3 DEF Prune
    <3>2. PICK c \in on : q \in Prefixes(c)
      BY <3>1
    <3>3. p \in Prefixes(c) /\ c # a
      BY <2>1, <3>1, <3>2, PrefixBegins, PrefixOfPrefix
    <3>. QED
      BY <3>3
  <2>. QED
    BY <2>2, <2>3
<1>. QED
  BY <1>1, <1>2

-----------------------------------------------------------------------------
(* Relations.                                                               *)

\* k is a record of what a projection derives.
IsKept(k) ==
    k = [entries |-> k.entries, index |-> k.index, blocks |-> k.blocks,
         count |-> k.count, active |-> k.active, likes |-> k.likes,
         reposts |-> k.reposts, hashes |-> k.hashes]

\* Those who are on, each by the event f says.
Sharing(on, f, b) == {a \in on : BlockNumber(f[a]) = b}

RelationsOf(k, on, f) ==
    /\ k.entries = [a \in on |-> f[a]]
    /\ k.index = UNION {Prefixes(a) : a \in on}
    /\ k.blocks = [b \in {BlockNumber(f[a]) : a \in on} |->
                       Cardinality(Sharing(on, f, b))]

\* Releasing a relationship leaves what the other relationships keep.
LEMMA RelationReleased ==
    ASSUME NEW k, IsKept(k), NEW on \in SUBSET Account, IsFiniteSet(on), NEW f,
           RelationsOf(k, on, f), NEW a \in Account
    PROVE  /\ IsKept(releaseRelationship(k, a))
           /\ RelationsOf(releaseRelationship(k, a), on \ {a}, f)
<1>. DEFINE r == releaseRelationship(k, a)
            b == BlockNumber(f[a])
<1>1. CASE a \notin on
  <2>1. r = k
    BY <1>1 DEF releaseRelationship, RelationsOf
  <2>2. on \ {a} = on
    BY <1>1
  <2>. QED
    BY <2>1, <2>2
<1>2. CASE a \in on
  <2>1. k.entries[a] = f[a] /\ a \in DOMAIN k.entries
    BY <1>2 DEF RelationsOf
  <2>2. r = [k EXCEPT !.entries = Without(k.entries, a),
                      !.index = Prune(k.index, a),
                      !.blocks = releaseIdentity(k.blocks, b)]
    BY <2>1 DEF releaseRelationship
  <2>3. IsKept(r) /\ r.entries = Without(k.entries, a)
        /\ r.index = Prune(k.index, a) /\ r.blocks = releaseIdentity(k.blocks, b)
    <3>. HIDE DEF r, b
    <3>. QED
      BY <2>2 DEF IsKept
  <2>. HIDE DEF r
  <2>4. r.entries = [c \in on \ {a} |-> f[c]]
    BY <2>3 DEF RelationsOf, Without
  <2>5. r.index = UNION {Prefixes(c) : c \in on \ {a}}
    BY <1>2, <2>3, PruneIsExact DEF RelationsOf
  <2>6. \A c : c # b => Sharing(on \ {a}, f, c) = Sharing(on, f, c)
    BY DEF Sharing
  <2>7. /\ Sharing(on \ {a}, f, b) = Sharing(on, f, b) \ {a}
        /\ a \in Sharing(on, f, b)
    BY <1>2 DEF Sharing
  <2>8. /\ IsFiniteSet(Sharing(on, f, b)) /\ IsFiniteSet(Sharing(on \ {a}, f, b))
        /\ Cardinality(Sharing(on \ {a}, f, b)) = Cardinality(Sharing(on, f, b)) - 1
        /\ Cardinality(Sharing(on, f, b)) \in Nat
    <3>1. IsFiniteSet(Sharing(on, f, b))
      BY FS_Subset DEF Sharing
    <3>. QED
      <4>. DEFINE S == Sharing(on, f, b)
      <4>1. IsFiniteSet(S) /\ a \in S
        BY <2>7, <3>1
      <4>. HIDE DEF S
      <4>2. /\ IsFiniteSet(S \ {a}) /\ Cardinality(S) \in Nat
            /\ Cardinality(S \ {a}) = Cardinality(S) - 1
        BY <4>1, FS_RemoveElement, FS_CardinalityType
      <4>. QED
        BY <2>7, <4>1, <4>2 DEF S
  <2>9. b \in DOMAIN k.blocks /\ k.blocks[b] = Cardinality(Sharing(on, f, b))
    BY <1>2 DEF RelationsOf
  <2>10. Sharing(on \ {a}, f, b) = {} <=> Cardinality(Sharing(on, f, b)) = 1
    BY <2>8, FS_EmptySet
  <2>11. r.blocks = [c \in {BlockNumber(f[d]) : d \in on \ {a}} |->
                        Cardinality(Sharing(on \ {a}, f, c))]
    <3>1. DOMAIN k.blocks = {BlockNumber(f[d]) : d \in on}
      BY DEF RelationsOf
    <3>2. \A c \in DOMAIN k.blocks : k.blocks[c] = Cardinality(Sharing(on, f, c))
      BY DEF RelationsOf
    <3>3. CASE Cardinality(Sharing(on, f, b)) = 1
      <4>1. r.blocks = [c \in DOMAIN k.blocks \ {b} |-> k.blocks[c]]
        BY <2>3, <2>9, <3>3 DEF releaseIdentity, Without
      <4>2. DOMAIN k.blocks \ {b} = {BlockNumber(f[d]) : d \in on \ {a}}
        <5>1. \A d \in on \ {a} : BlockNumber(f[d]) # b
          BY <2>10, <3>3 DEF Sharing
        <5>. QED
          BY <3>1, <5>1
      <4>3. \A c \in DOMAIN k.blocks \ {b} :
                k.blocks[c] = Cardinality(Sharing(on \ {a}, f, c))
        BY <3>2, <2>6
      <4>. QED
        BY <4>1, <4>2, <4>3
    <3>4. CASE Cardinality(Sharing(on, f, b)) # 1
      <4>1. r.blocks = [k.blocks EXCEPT ![b] = k.blocks[b] - 1]
        BY <2>3, <2>9, <3>4 DEF releaseIdentity
      <4>2. DOMAIN k.blocks = {BlockNumber(f[d]) : d \in on \ {a}}
        <5>1. \E d \in on \ {a} : BlockNumber(f[d]) = b
          BY <2>10, <3>4 DEF Sharing
        <5>. QED
          BY <3>1, <5>1
      <4>3. \A c \in DOMAIN k.blocks :
                r.blocks[c] = Cardinality(Sharing(on \ {a}, f, c))
        BY <3>2, <2>6, <2>8, <2>9, <4>1
      <4>4. r.blocks = [c \in DOMAIN k.blocks |-> r.blocks[c]]
        BY <4>1
      <4>. QED
        BY <4>2, <4>3, <4>4
    <3>. QED
      BY <3>3, <3>4
  <2>. QED
    BY <2>3, <2>4, <2>5, <2>11 DEF r, RelationsOf
<1>. QED
  BY <1>1, <1>2

\* Retaining a relationship adds what it keeps to that of the others.
LEMMA RelationRetained ==
    ASSUME NEW k, IsKept(k), NEW on \in SUBSET Account, IsFiniteSet(on), NEW f,
           NEW g, NEW i, RelationsOf(k, on, f), NEW a \in Account, a \notin on,
           \A c \in on : g[c] = f[c], g[a] = i
    PROVE  /\ IsKept(retainRelationship(k, a, i))
           /\ RelationsOf(retainRelationship(k, a, i), on \cup {a}, g)
<1>. DEFINE r == retainRelationship(k, a, i)
            b == BlockNumber(i)
<1>1. IsKept(r) /\ r.entries = With(k.entries, a, i)
      /\ r.index = k.index \cup Prefixes(a)
      /\ r.blocks = retainIdentity(k.blocks, b)
  <2>1. r = [k EXCEPT !.entries = With(k.entries, a, i),
                      !.index = k.index \cup Prefixes(a),
                      !.blocks = retainIdentity(k.blocks, b)]
    BY DEF retainRelationship
  <2>. HIDE DEF r, b
  <2>. QED
    BY <2>1 DEF IsKept
<1>. HIDE DEF r
<1>2. r.entries = [c \in on \cup {a} |-> g[c]]
  <2>1. DOMAIN k.entries = on /\ \A c \in on : k.entries[c] = f[c]
    BY DEF RelationsOf
  <2>2. r.entries = [c \in on \cup {a} |-> IF c = a THEN i ELSE k.entries[c]]
    BY <1>1, <2>1 DEF With
  <2>. QED
    BY <2>1, <2>2
<1>3. r.index = UNION {Prefixes(c) : c \in on \cup {a}}
  BY <1>1 DEF RelationsOf
<1>4. \A c \in on : BlockNumber(g[c]) = BlockNumber(f[c])
  OBVIOUS
<1>5. BlockNumber(g[a]) = b
  OBVIOUS
<1>6. \A c : c # b => Sharing(on \cup {a}, g, c) = Sharing(on, f, c)
  BY <1>4, <1>5 DEF Sharing
<1>7. Sharing(on \cup {a}, g, b) = Sharing(on, f, b) \cup {a}
      /\ a \notin Sharing(on, f, b)
  BY <1>4, <1>5 DEF Sharing
<1>8. /\ IsFiniteSet(Sharing(on, f, b))
      /\ Cardinality(Sharing(on \cup {a}, g, b)) = Cardinality(Sharing(on, f, b)) + 1
      /\ Cardinality(Sharing(on, f, b)) \in Nat
      /\ Sharing(on, f, b) = {} => Cardinality(Sharing(on, f, b)) = 0
  <2>1. IsFiniteSet(Sharing(on, f, b))
    BY FS_Subset DEF Sharing
  <2>. QED
    <3>. DEFINE S == Sharing(on, f, b)
    <3>1. IsFiniteSet(S) /\ a \notin S
      BY <1>7, <2>1
    <3>. HIDE DEF S
    <3>2. /\ Cardinality(S \cup {a}) = Cardinality(S) + 1
          /\ Cardinality(S) \in Nat /\ (S = {} => Cardinality(S) = 0)
      BY <3>1, FS_AddElement, FS_CardinalityType, FS_EmptySet
    <3>. QED
      BY <1>7, <3>1, <3>2 DEF S
<1>9. r.blocks = [c \in {BlockNumber(g[d]) : d \in on \cup {a}} |->
                      Cardinality(Sharing(on \cup {a}, g, c))]
  <2>1. DOMAIN k.blocks = {BlockNumber(f[d]) : d \in on}
    BY DEF RelationsOf
  <2>2. \A c \in DOMAIN k.blocks : k.blocks[c] = Cardinality(Sharing(on, f, c))
    BY DEF RelationsOf
  <2>3. DOMAIN k.blocks \cup {b} = {BlockNumber(g[d]) : d \in on \cup {a}}
    BY <2>1, <1>4, <1>5
  <2>4. DOMAIN r.blocks = DOMAIN k.blocks \cup {b}
        /\ r.blocks = [c \in DOMAIN r.blocks |-> r.blocks[c]]
    <3>1. CASE b \in DOMAIN k.blocks
      <4>1. r.blocks = [k.blocks EXCEPT ![b] = @ + 1]
        BY <1>1, <3>1 DEF retainIdentity
      <4>. QED
        BY <3>1, <4>1
    <3>2. CASE b \notin DOMAIN k.blocks
      <4>1. r.blocks = [c \in DOMAIN k.blocks \cup {b} |-> IF c = b THEN 1 ELSE k.blocks[c]]
        BY <1>1, <3>2 DEF retainIdentity, With
      <4>. QED
        BY <3>2, <4>1
    <3>. QED
      BY <3>1, <3>2
  <2>5. r.blocks[b] = Cardinality(Sharing(on \cup {a}, g, b))
    <3>1. CASE b \in DOMAIN k.blocks
      <4>1. r.blocks[b] = k.blocks[b] + 1
        BY <1>1, <3>1 DEF retainIdentity
      <4>. QED
        BY <3>1, <4>1, <2>2, <1>8
    <3>2. CASE b \notin DOMAIN k.blocks
      <4>1. r.blocks[b] = 1
        BY <1>1, <3>2 DEF retainIdentity, With
      <4>2. Sharing(on, f, b) = {}
        BY <2>1, <3>2 DEF Sharing
      <4>. QED
        BY <4>1, <4>2, <1>8
    <3>. QED
      BY <3>1, <3>2
  <2>6. \A c \in DOMAIN k.blocks : c # b =>
            r.blocks[c] = Cardinality(Sharing(on \cup {a}, g, c))
    <3>1. \A c \in DOMAIN k.blocks : c # b => r.blocks[c] = k.blocks[c]
      BY <1>1 DEF retainIdentity, With
    <3>. QED
      BY <3>1, <2>2, <1>6
  <2>. QED
    BY <2>3, <2>4, <2>5, <2>6
<1>. QED
  BY <1>1, <1>2, <1>3, <1>9 DEF r, RelationsOf

-----------------------------------------------------------------------------
(* The latest of some events.                                               *)

\* A set of numbers with a bound has a greatest one.
LEMMA MaxIsGreatest ==
    ASSUME NEW n \in Nat, NEW S \in SUBSET (0 .. n), S # {}
    PROVE  /\ Max(S) \in S
           /\ \A x \in S : x <= Max(S)
<1>. DEFINE Bounds == {m \in Nat : \A x \in S : x <= m}
<1>1. n \in Bounds
  OBVIOUS
<1>2. PICK m \in Bounds : \A y \in Bounds : m <= y
  <2>1. Bounds \in SUBSET Nat /\ Bounds # {}
    BY <1>1
  <2>. HIDE DEF Bounds
  <2>. QED
    BY <2>1, LeastNumber
<1>3. m \in Nat /\ \A x \in S : x <= m /\ x \in Nat
  BY <1>2
<1>4. m \in S
  <2>. SUFFICES ASSUME m \notin S  PROVE FALSE
    OBVIOUS
  <2>1. \A x \in S : x <= m - 1
    BY <1>3
  <2>2. PICK x \in S : TRUE
    OBVIOUS
  <2>3. m - 1 \in Nat
    BY <1>3, <2>1, <2>2
  <2>. QED
    BY <1>2, <1>3, <2>1, <2>3
<1>5. \E x \in S : \A y \in S : x >= y
  BY <1>3, <1>4
<1>6. Max(S) \in S /\ \A y \in S : Max(S) >= y
  BY <1>5 DEF Max
<1>. QED
  BY <1>3, <1>6

\* An upper bound that is attained is the maximum.
LEMMA MaxIs ==
    ASSUME NEW S \in SUBSET Nat, NEW m \in S, \A x \in S : x <= m
    PROVE  Max(S) = m
<1>1. \E x \in S : \A y \in S : x >= y
  OBVIOUS
<1>2. Max(S) \in S /\ \A y \in S : Max(S) >= y
  BY <1>1 DEF Max
<1>3. Max(S) \in Nat /\ m \in Nat /\ Max(S) <= m /\ m <= Max(S)
  BY <1>2
<1>. QED
  BY <1>3

\* The last of some events.
LastIn(S) == IF S = {} THEN NotYet ELSE Max(S)

\* The last event of a set and a later event is the later event.
LEMMA LastWith ==
    ASSUME NEW S \in SUBSET Nat, NEW i \in Nat, \A j \in S : j < i
    PROVE  LastIn(S \cup {i}) = i
<1>1. S \cup {i} \in SUBSET Nat /\ i \in S \cup {i} /\ \A j \in S \cup {i} : j <= i
  OBVIOUS
<1>2. Max(S \cup {i}) = i
  BY <1>1, MaxIs
<1>. QED
  BY <1>2 DEF LastIn

\* No event of a set comes after its last.
LEMMA LastIsLast ==
    ASSUME NEW n \in Nat, NEW S \in SUBSET (1 .. n)
    PROVE  /\ LastIn(S) \in S \cup {NotYet}
           /\ LastIn(S) = NotYet <=> S = {}
           /\ \A j \in S : j <= LastIn(S)
<1>1. CASE S = {}
  BY <1>1 DEF LastIn, NotYet
<1>2. CASE S # {}
  <2>1. S \in SUBSET (0 .. n)
    OBVIOUS
  <2>2. Max(S) \in S /\ \A x \in S : x <= Max(S)
    BY <1>2, <2>1, MaxIsGreatest
  <2>. QED
    BY <1>2, <2>2 DEF LastIn, NotYet
<1>. QED
  BY <1>1, <1>2

\* i comes after the events of A.
Follows(A, i) ==
    /\ A \subseteq 1 .. Len(events)
    /\ i \in 1 .. Len(events)
    /\ \A j \in A : j < i

About(A, a) == {i \in A : Counterpart(Event(i)) = a}

LatestIn(A, a) == LastIn(About(A, a))

OnIn(A) ==
    {a \in Account : LatestIn(A, a) # NotYet /\ Event(LatestIn(A, a)).on}

\* Applying an event makes it the latest about its account, and leaves
\* the latest events about the others.
LEMMA LatestChanges ==
    ASSUME Len(events) \in Nat, NEW A, NEW i, Follows(A, i)
    PROVE  /\ LatestIn(A \cup {i}, Counterpart(Event(i))) = i
           /\ \A a : a # Counterpart(Event(i)) =>
                 LatestIn(A \cup {i}, a) = LatestIn(A, a)
<1>. DEFINE c == Counterpart(Event(i))
<1>1. i \in About(A \cup {i}, c) /\ About(A \cup {i}, c) \in SUBSET Nat
      /\ \A j \in About(A \cup {i}, c) : j <= i
  <2>1. A \cup {i} \in SUBSET Nat /\ \A j \in A \cup {i} : j <= i
    BY DEF Follows
  <2>. QED
    BY <2>1 DEF About
<1>2. LatestIn(A \cup {i}, c) = i
  <2>. DEFINE S == About(A \cup {i}, c)
  <2>1. i \in S /\ S \in SUBSET Nat /\ \A j \in S : j <= i
    BY <1>1
  <2>2. LatestIn(A \cup {i}, c) = IF S = {} THEN NotYet ELSE Max(S)
    BY DEF LatestIn, LastIn
  <2>. HIDE DEF S
  <2>3. Max(S) = i
    BY <2>1, MaxIs
  <2>. QED
    BY <2>1, <2>2, <2>3
<1>3. \A a : a # c => About(A \cup {i}, a) = About(A, a)
  BY DEF About
<1>4. ASSUME NEW a, a # c
      PROVE  LatestIn(A \cup {i}, a) = LatestIn(A, a)
  <2>1. About(A \cup {i}, a) = About(A, a)
    BY <1>3, <1>4
  <2>. QED
    BY <2>1 DEF LatestIn, LastIn
<1>. QED
  BY <1>2, <1>4

\* Finitely many accounts are on.
LEMMA OnIsFinite ==
    ASSUME Len(events) \in Nat, NEW A \in SUBSET (1 .. Len(events))
    PROVE  IsFiniteSet(OnIn(A))
<1>. DEFINE C == {Counterpart(Event(i)) : i \in A}
<1>1. IsFiniteSet(A)
  <2>1. IsFiniteSet(1 .. Len(events))
    BY FS_Interval
  <2>. QED
    BY <2>1, FS_Subset
<1>2. IsFiniteSet(C)
  <2>. DEFINE h == [i \in A |-> Counterpart(Event(i))]
  <2>1. h \in Surjection(A, C)
    BY DEF Surjection
  <2>. HIDE DEF h, C
  <2>. QED
    BY <1>1, <2>1, FS_Surjection
<1>3. OnIn(A) \subseteq C
  <2>. SUFFICES ASSUME NEW a \in OnIn(A)  PROVE a \in C
    OBVIOUS
  <2>1. About(A, a) # {}
    BY DEF OnIn, LatestIn, LastIn
  <2>. QED
    BY <2>1 DEF About
<1>. QED
  BY <1>2, <1>3, FS_Subset

RelationsIn(k, A) == RelationsOf(k, OnIn(A), [a \in Account |-> LatestIn(A, a)])

\* A fold step of a relationship projection, from the relations of the events
\* applied before to those of one event more.
LEMMA RelationFolded ==
    ASSUME Len(events) \in Nat, NEW A, NEW i, Follows(A, i), NEW k, IsKept(k),
           RelationsIn(k, A), Counterpart(Event(i)) \in Account,
           Event(i).on \in BOOLEAN
    PROVE  IsKept(FoldRelation(k, i)) /\ RelationsIn(FoldRelation(k, i), A \cup {i})
<1>. DEFINE a == Counterpart(Event(i))
            B == A \cup {i}
            f == [c \in Account |-> LatestIn(A, c)]
            g == [c \in Account |-> LatestIn(B, c)]
            on == OnIn(A)
            r == releaseRelationship(k, a)
<1>1. on \in SUBSET Account /\ IsFiniteSet(on) /\ a \in Account
  BY OnIsFinite DEF OnIn, Follows
<1>2. RelationsOf(k, on, f)
  BY DEF RelationsIn
<1>3. IsKept(r) /\ RelationsOf(r, on \ {a}, f)
  <2>. HIDE DEF on, f, a
  <2>. QED
    BY <1>1, <1>2, RelationReleased
<1>4. g[a] = i /\ \A c \in Account : c # a => g[c] = f[c]
  BY <1>1, LatestChanges
<1>5. i # NotYet
  BY DEF Follows, NotYet
<1>6. OnIn(B) = IF Event(i).on THEN (on \ {a}) \cup {a} ELSE on \ {a}
  <2>1. LatestIn(B, a) = i /\ \A c \in Account : c # a => LatestIn(B, c) = LatestIn(A, c)
    BY LatestChanges
  <2>. QED
    BY <1>1, <1>5, <2>1 DEF OnIn
<1>7. CASE Event(i).on
  <2>1. FoldRelation(k, i) = retainRelationship(r, a, i)
    BY <1>7 DEF FoldRelation
  <2>2. IsFiniteSet(on \ {a}) /\ on \ {a} \in SUBSET Account /\ a \notin on \ {a}
    BY <1>1, FS_Subset
  <2>3. \A c \in on \ {a} : g[c] = f[c]
    BY <1>1, <1>4
  <2>. HIDE DEF r, on, f, g, a
  <2>4. /\ IsKept(retainRelationship(r, a, i))
        /\ RelationsOf(retainRelationship(r, a, i), (on \ {a}) \cup {a}, g)
    BY <1>1, <1>3, <1>4, <2>2, <2>3, RelationRetained
  <2>. QED
    BY <1>6, <1>7, <2>1, <2>4 DEF RelationsIn, g, a
<1>8. CASE ~ Event(i).on
  <2>1. FoldRelation(k, i) = r
    BY <1>8 DEF FoldRelation
  <2>2. \A c \in on \ {a} : g[c] = f[c]
    BY <1>1, <1>4
  <2>3. RelationsOf(r, on \ {a}, g)
    <3>. HIDE DEF r, on, f, g, a
    <3>1. [c \in on \ {a} |-> f[c]] = [c \in on \ {a} |-> g[c]]
      BY <2>2
    <3>2. {BlockNumber(f[c]) : c \in on \ {a}} = {BlockNumber(g[c]) : c \in on \ {a}}
      BY <2>2
    <3>3. \A b : Sharing(on \ {a}, f, b) = Sharing(on \ {a}, g, b)
      BY <2>2 DEF Sharing
    <3>. QED
      BY <1>3, <3>1, <3>2, <3>3 DEF RelationsOf
  <2>. QED
    BY <1>3, <1>6, <1>8, <2>1, <2>3 DEF RelationsIn
<1>. QED
  BY <1>7, <1>8

-----------------------------------------------------------------------------
(* Profiles.                                                                *)

ByAccount(A, a) == {i \in A : Event(i).account = a}

ProfilesIn(k, A) ==
    k.entries = [a \in {b \in TrackedAccounts : LastIn(ByAccount(A, b)) # NotYet} |->
                     LastIn(ByAccount(A, a))]

\* The same of a profile.
LEMMA ProfileFolded ==
    ASSUME NEW A, NEW i, Follows(A, i), Len(events) \in Nat, NEW k, IsKept(k),
           ProfilesIn(k, A)
    PROVE  IsKept(FoldProfile(k, i)) /\ ProfilesIn(FoldProfile(k, i), A \cup {i})
<1>. DEFINE a == Event(i).account
            r == FoldProfile(k, i)
            B == A \cup {i}
<1>1. LastIn(ByAccount(B, a)) = i
  <2>1. ByAccount(B, a) = ByAccount(A, a) \cup {i}
    BY DEF ByAccount
  <2>2. ByAccount(A, a) \in SUBSET Nat /\ i \in Nat
        /\ \A j \in ByAccount(A, a) : j < i
    <3>1. A \in SUBSET Nat /\ i \in Nat /\ \A j \in A : j < i
      BY DEF Follows
    <3>. QED
      BY <3>1 DEF ByAccount
  <2>. HIDE DEF a
  <2>. QED
    BY <2>1, <2>2, LastWith
<1>2. ASSUME NEW c, c # a  PROVE ByAccount(B, c) = ByAccount(A, c)
  BY <1>2 DEF ByAccount
<1>3. i # NotYet
  BY DEF Follows, NotYet
<1>4. CASE a \notin TrackedAccounts
  <2>1. r = k
    BY <1>4 DEF FoldProfile
  <2>2. \A b \in TrackedAccounts : ByAccount(B, b) = ByAccount(A, b)
    BY <1>2, <1>4
  <2>. QED
    BY <2>1, <2>2 DEF ProfilesIn
<1>5. CASE a \in TrackedAccounts
  <2>1. r = [k EXCEPT !.entries = With(k.entries, a, i)]
    BY <1>5 DEF FoldProfile
  <2>. HIDE DEF r
  <2>2. IsKept(r) /\ r.entries = With(k.entries, a, i)
    BY <2>1 DEF IsKept
  <2>3. DOMAIN k.entries = {b \in TrackedAccounts : LastIn(ByAccount(A, b)) # NotYet}
        /\ \A b \in DOMAIN k.entries : k.entries[b] = LastIn(ByAccount(A, b))
    BY DEF ProfilesIn
  <2>4. {b \in TrackedAccounts : LastIn(ByAccount(B, b)) # NotYet}
            = DOMAIN k.entries \cup {a}
    BY <1>1, <1>2, <1>3, <1>5, <2>3
  <2>5. r.entries = [b \in DOMAIN k.entries \cup {a} |-> LastIn(ByAccount(B, b))]
    <3>1. r.entries = [b \in DOMAIN k.entries \cup {a} |->
                           IF b = a THEN i ELSE k.entries[b]]
      BY <2>2 DEF With
    <3>2. \A b \in DOMAIN k.entries \cup {a} :
              (IF b = a THEN i ELSE k.entries[b]) = LastIn(ByAccount(B, b))
      BY <1>1, <1>2, <2>3
    <3>. QED
      BY <3>1, <3>2
  <2>6. ProfilesIn(r, B)
    BY <2>4, <2>5 DEF ProfilesIn
  <2>. QED
    BY <2>2, <2>6 DEF r
<1>. QED
  BY <1>4, <1>5

-----------------------------------------------------------------------------
(* Comments.                                                                *)

CommentsOn(A, post) == {i \in A : Event(i).post = post}

Got(k, post) == IF post \in DOMAIN k.entries THEN k.entries[post] ELSE <<>>

Listed(got, S) ==
    /\ got \in Seq(Nat)
    /\ {got[n] : n \in 1 .. Len(got)} = S
    /\ \A m, n \in 1 .. Len(got) : m < n => got[m] < got[n]

CommentsIn(k, A) ==
    /\ k.count = Cardinality(A)
    /\ DOMAIN k.entries \subseteq TrackedPosts
    /\ \A post \in TrackedPosts : Listed(Got(k, post), CommentsOn(A, post))

\* A list of a set of events goes on with a later event.
LEMMA ListedNext ==
    ASSUME NEW got, NEW S, Listed(got, S), NEW i \in Nat, \A j \in S : j < i
    PROVE  Listed(Append(got, i), S \cup {i})
<1>. DEFINE new == Append(got, i)
            n == Len(got)
<1>1. /\ got \in Seq(Nat) /\ n \in Nat
      /\ \A x \in 1 .. n : got[x] \in S
      /\ \A y \in S : \E x \in 1 .. n : got[x] = y
      /\ \A x, y \in 1 .. n : x < y => got[x] < got[y]
  BY DEF Listed
<1>2. /\ new \in Seq(Nat) /\ Len(new) = n + 1 /\ new[n + 1] = i
      /\ \A x \in 1 .. n : new[x] = got[x]
  BY <1>1
<1>. HIDE DEF new, n
<1>3. 1 .. n + 1 = (1 .. n) \cup {n + 1}
  BY <1>1
<1>4. {new[x] : x \in 1 .. Len(new)} = S \cup {i}
  <2>1. \A x \in 1 .. Len(new) : new[x] \in S \cup {i}
    BY <1>1, <1>2, <1>3
  <2>2. \A y \in S \cup {i} : \E x \in 1 .. Len(new) : new[x] = y
    <3>1. n + 1 \in 1 .. Len(new) /\ \A x \in 1 .. n : x \in 1 .. Len(new)
      BY <1>1, <1>2
    <3>. QED
      BY <3>1, <1>1, <1>2
  <2>. QED
    BY <2>1, <2>2
<1>5. \A x, y \in 1 .. Len(new) : x < y => new[x] < new[y]
  <2>. SUFFICES ASSUME NEW x \in 1 .. n + 1, NEW y \in 1 .. n + 1, x < y
                PROVE  new[x] < new[y]
    BY <1>2
  <2>1. x \in 1 .. n /\ new[x] = got[x] /\ new[x] \in S
    BY <1>1, <1>2
  <2>2. CASE y = n + 1
    BY <1>2, <2>1, <2>2
  <2>3. CASE y # n + 1
    <3>1. y \in 1 .. n /\ new[y] = got[y]
      BY <1>1, <1>2, <2>3
    <3>. QED
      BY <1>1, <2>1, <3>1
  <2>. QED
    BY <2>2, <2>3
<1>. QED
  BY <1>2, <1>4, <1>5 DEF Listed, new

\* The same of the comments of a post.
LEMMA CommentFolded ==
    ASSUME NEW A, NEW i, Follows(A, i), Len(events) \in Nat, NEW k, IsKept(k),
           CommentsIn(k, A)
    PROVE  IsKept(FoldComment(k, i)) /\ CommentsIn(FoldComment(k, i), A \cup {i})
<1>. DEFINE post == Event(i).post
            counted == [k EXCEPT !.count = k.count + 1]
            r == FoldComment(k, i)
            B == A \cup {i}
<1>1. r = IF post \in TrackedPosts
          THEN [counted EXCEPT !.entries = With(counted.entries, post, Append(Got(k, post), i))]
          ELSE counted
  BY DEF FoldComment, Got
<1>2. IsKept(counted) /\ counted.count = k.count + 1 /\ counted.entries = k.entries
  BY DEF IsKept
<1>. HIDE DEF r, counted
<1>3. IsKept(r) /\ r.count = k.count + 1
      /\ r.entries = IF post \in TrackedPosts
                     THEN With(k.entries, post, Append(Got(k, post), i))
                     ELSE k.entries
  BY <1>1, <1>2 DEF IsKept
<1>4. k.count + 1 = Cardinality(B)
  <2>1. IsFiniteSet(A) /\ i \notin A
    <3>1. IsFiniteSet(1 .. Len(events)) /\ A \subseteq 1 .. Len(events)
      BY FS_Interval DEF Follows
    <3>2. \A j \in A : j \in Nat /\ j < i
      BY DEF Follows
    <3>3. i \notin A
      BY <3>2
    <3>. QED
      BY <3>1, <3>3, FS_Subset
  <2>. QED
    BY <2>1, FS_AddElement DEF CommentsIn
<1>5. DOMAIN r.entries \subseteq TrackedPosts
  BY <1>3 DEF CommentsIn, With
<1>6. ASSUME NEW p \in TrackedPosts
      PROVE  Listed(Got(r, p), CommentsOn(B, p))
  <2>1. Listed(Got(k, p), CommentsOn(A, p))
    BY <1>6 DEF CommentsIn
  <2>2. CASE p = post
    <3>1. Got(r, p) = Append(Got(k, p), i)
      BY <1>3, <2>2 DEF Got, With
    <3>2. CommentsOn(B, p) = CommentsOn(A, p) \cup {i}
      BY <2>2 DEF CommentsOn
    <3>3. i \in Nat /\ \A j \in CommentsOn(A, p) : j < i
      BY DEF Follows, CommentsOn
    <3>. QED
      <4>. HIDE DEF post, B
      <4>1. Listed(Append(Got(k, p), i), CommentsOn(A, p) \cup {i})
        BY <2>1, <3>3, ListedNext
      <4>. QED
        BY <3>1, <3>2, <4>1
  <2>3. CASE p # post
    <3>1. Got(r, p) = Got(k, p)
      BY <1>3, <2>3 DEF Got, With
    <3>2. CommentsOn(B, p) = CommentsOn(A, p)
      BY <2>3 DEF CommentsOn
    <3>. QED
      BY <2>1, <3>1, <3>2
  <2>. QED
    BY <2>2, <2>3
<1>7. CommentsIn(r, B)
  BY <1>3, <1>4, <1>5, <1>6 DEF CommentsIn
<1>. QED
  BY <1>3, <1>7 DEF r

-----------------------------------------------------------------------------
(* Reactions.                                                               *)

LikesBy(L, post, a) == {i \in L : Event(i).post = post /\ Event(i).account = a}

Likers(L, post) ==
    {a \in Account : /\ LastIn(LikesBy(L, post, a)) # NotYet
                     /\ Event(LastIn(LikesBy(L, post, a))).on}

RepostsOf(R, post) == {i \in R : Event(i).post = post}

ReactionsIn(k, L, R) ==
    /\ k.active \subseteq Nat \X Account
    /\ \A p \in Nat, a \in Account : <<p, a>> \in k.active <=> a \in Likers(L, p)
    /\ \A p \in Nat : CountOf(k.likes, p) = Cardinality(Likers(L, p))
    /\ DOMAIN k.reposts = {Event(i).post : i \in R}
    /\ \A p \in Nat : CountOf(k.reposts, p) = Cardinality(RepostsOf(R, p))
    /\ k.hashes \subseteq {Event(i).block : i \in L \cup R}

\* One count changes and the others stay.
LEMMA CountIs ==
    ASSUME NEW counts, NEW p, NEW n
    PROVE  /\ CountOf(WithCount(counts, p, n), p) = n
           /\ \A q : q # p => CountOf(WithCount(counts, p, n), q) = CountOf(counts, q)
<1>1. CASE n = 0
  <2>1. WithCount(counts, p, n) = [y \in DOMAIN counts \ {p} |-> counts[y]]
    BY <1>1 DEF WithCount, Without
  <2>. QED
    BY <1>1, <2>1 DEF CountOf
<1>2. CASE n # 0
  <2>1. WithCount(counts, p, n)
            = [y \in DOMAIN counts \cup {p} |-> IF y = p THEN n ELSE counts[y]]
    BY <1>2 DEF WithCount, With
  <2>. QED
    BY <1>2, <2>1 DEF CountOf
<1>. QED
  BY <1>1, <1>2

\* Finitely many accounts like a post.
LEMMA LikersFinite ==
    ASSUME Len(events) \in Nat, NEW L \in SUBSET (1 .. Len(events)), NEW p
    PROVE  IsFiniteSet(Likers(L, p)) /\ Cardinality(Likers(L, p)) \in Nat
<1>. DEFINE C == {Event(i).account : i \in L}
<1>1. IsFiniteSet(L)
  <2>1. IsFiniteSet(1 .. Len(events))
    BY FS_Interval
  <2>. QED
    BY <2>1, FS_Subset
<1>2. IsFiniteSet(C)
  <2>. DEFINE h == [i \in L |-> Event(i).account]
  <2>1. h \in Surjection(L, C)
    BY DEF Surjection
  <2>. HIDE DEF h, C
  <2>. QED
    BY <1>1, <2>1, FS_Surjection
<1>3. Likers(L, p) \subseteq C
  <2>. SUFFICES ASSUME NEW a \in Likers(L, p)  PROVE a \in C
    OBVIOUS
  <2>1. LikesBy(L, p, a) # {}
    BY DEF Likers, LastIn
  <2>. QED
    BY <2>1 DEF LikesBy
<1>. QED
  BY <1>2, <1>3, FS_Subset, FS_CardinalityType

\* Applying a like changes the likers of its own post only.
LEMMA LikersChange ==
    ASSUME NEW L, NEW i, Follows(L, i), Len(events) \in Nat,
           Event(i).account \in Account, Event(i).on \in BOOLEAN
    PROVE  /\ Likers(L \cup {i}, Event(i).post)
                  = IF Event(i).on
                    THEN Likers(L, Event(i).post) \cup {Event(i).account}
                    ELSE Likers(L, Event(i).post) \ {Event(i).account}
           /\ \A p : p # Event(i).post => Likers(L \cup {i}, p) = Likers(L, p)
<1>. DEFINE q == Event(i).post
            a == Event(i).account
            M == L \cup {i}
<1>1. LastIn(LikesBy(M, q, a)) = i
  <2>1. LikesBy(M, q, a) = LikesBy(L, q, a) \cup {i}
    BY DEF LikesBy
  <2>2. LikesBy(L, q, a) \in SUBSET Nat /\ i \in Nat
        /\ \A j \in LikesBy(L, q, a) : j < i
    <3>1. L \in SUBSET Nat /\ i \in Nat /\ \A j \in L : j < i
      BY DEF Follows
    <3>. QED
      BY <3>1 DEF LikesBy
  <2>. HIDE DEF q, a
  <2>. QED
    BY <2>1, <2>2, LastWith
<1>2. i # NotYet
  BY DEF Follows, NotYet
<1>3. ASSUME NEW b, b # a  PROVE LikesBy(M, q, b) = LikesBy(L, q, b)
  BY <1>3 DEF LikesBy
<1>4. ASSUME NEW p, p # q, NEW b  PROVE LikesBy(M, p, b) = LikesBy(L, p, b)
  BY <1>4 DEF LikesBy
<1>5. Likers(M, q) = IF Event(i).on THEN Likers(L, q) \cup {a} ELSE Likers(L, q) \ {a}
  <2>1. \A b : b \in Likers(M, q) <=>
            b \in IF Event(i).on THEN Likers(L, q) \cup {a} ELSE Likers(L, q) \ {a}
    <3>. SUFFICES ASSUME NEW b
                  PROVE  b \in Likers(M, q) <=>
                            b \in IF Event(i).on THEN Likers(L, q) \cup {a}
                                  ELSE Likers(L, q) \ {a}
      OBVIOUS
    <3>1. CASE b = a
      <4>1. a \in Likers(M, q) <=> Event(i).on
        BY <1>1, <1>2 DEF Likers
      <4>. QED
        BY <3>1, <4>1
    <3>2. CASE b # a
      <4>1. b \in Likers(M, q) <=> b \in Likers(L, q)
        BY <1>3, <3>2 DEF Likers
      <4>. QED
        BY <3>2, <4>1
    <3>. QED
      BY <3>1, <3>2
  <2>. QED
    BY <2>1
<1>6. ASSUME NEW p, p # q  PROVE Likers(M, p) = Likers(L, p)
  BY <1>4, <1>6 DEF Likers
<1>. QED
  BY <1>5, <1>6

\* The same of a like.
LEMMA LikeFolded ==
    ASSUME NEW L, NEW R, NEW i, Follows(L, i), Len(events) \in Nat, NEW k,
           IsKept(k),
           ReactionsIn(k, L, R), Event(i).account \in Account,
           Event(i).on \in BOOLEAN, Event(i).post \in Nat
    PROVE  IsKept(FoldLike(k, i)) /\ ReactionsIn(FoldLike(k, i), L \cup {i}, R)
<1>. DEFINE e == Event(i)
            q == Event(i).post
            a == Event(i).account
            like == <<q, a>>
            M == L \cup {i}
            old == Likers(L, q)
            new == Likers(M, q)
            n == CountOf(k.likes, q)
            m == IF e.on = (like \in k.active) THEN n
                 ELSE IF e.on THEN n + 1 ELSE n - 1
            r == FoldLike(k, i)
<1>1. r = [k EXCEPT !.active = IF e.on THEN k.active \cup {like} ELSE k.active \ {like},
                    !.likes = WithCount(k.likes, q, m),
                    !.hashes = k.hashes \cup {e.block}]
  BY DEF FoldLike
<1>. HIDE DEF r
<1>2. /\ IsKept(r)
      /\ r.active = IF e.on THEN k.active \cup {like} ELSE k.active \ {like}
      /\ r.likes = WithCount(k.likes, q, m)
      /\ r.hashes = k.hashes \cup {e.block}
      /\ r.reposts = k.reposts
  <2>. HIDE DEF m, like, e
  <2>. QED
    BY <1>1 DEF IsKept
<1>3. /\ new = IF e.on THEN old \cup {a} ELSE old \ {a}
      /\ \A p : p # q => Likers(M, p) = Likers(L, p)
  BY LikersChange
<1>4. /\ k.active \subseteq Nat \X Account
      /\ \A p \in Nat, b \in Account : <<p, b>> \in k.active <=> b \in Likers(L, p)
      /\ \A p \in Nat : CountOf(k.likes, p) = Cardinality(Likers(L, p))
  BY DEF ReactionsIn
<1>5. r.active \subseteq Nat \X Account
  BY <1>2, <1>4
<1>6. ASSUME NEW p \in Nat, NEW b \in Account
      PROVE  <<p, b>> \in r.active <=> b \in Likers(M, p)
  <2>1. <<p, b>> = like <=> p = q /\ b = a
    OBVIOUS
  <2>2. <<p, b>> \in k.active <=> b \in Likers(L, p)
    BY <1>4
  <2>3. <<p, b>> \in r.active <=>
            IF e.on THEN <<p, b>> \in k.active \/ <<p, b>> = like
            ELSE <<p, b>> \in k.active /\ <<p, b>> # like
    BY <1>2
  <2>4. CASE p = q
    <3>1. b \in Likers(M, p) <=> IF e.on THEN b \in old \/ b = a ELSE b \in old /\ b # a
      BY <1>3, <2>4
    <3>. HIDE DEF like, e, a, q
    <3>. QED
      BY <2>1, <2>2, <2>3, <2>4, <3>1
  <2>5. CASE p # q
    <3>1. Likers(M, p) = Likers(L, p)
      BY <1>3, <2>5
    <3>. HIDE DEF like, e, a, q
    <3>. QED
      BY <2>1, <2>2, <2>3, <2>5, <3>1
  <2>. QED
    BY <2>4, <2>5
<1>7. m = Cardinality(new)
  <2>1. IsFiniteSet(old) /\ n = Cardinality(old) /\ n \in Nat
    <3>1. L \in SUBSET (1 .. Len(events))
      BY DEF Follows
    <3>. QED
      BY <1>4, <3>1, LikersFinite
  <2>2. like \in k.active <=> a \in old
    BY <1>4
  <2>3. e.on \in BOOLEAN
    OBVIOUS
  <2>. HIDE DEF old, new, like, e, a, n
  <2>4. CASE e.on /\ a \in old
    <3>1. new = old /\ m = n
      BY <1>3, <2>2, <2>3, <2>4
    <3>. QED
      BY <2>1, <3>1
  <2>5. CASE e.on /\ a \notin old
    <3>1. new = old \cup {a} /\ m = n + 1
      BY <1>3, <2>2, <2>3, <2>5
    <3>. QED
      BY <2>1, <2>5, <3>1, FS_AddElement
  <2>6. CASE ~ e.on /\ a \in old
    <3>1. new = old \ {a} /\ m = n - 1
      BY <1>3, <2>2, <2>3, <2>6
    <3>. QED
      BY <2>1, <2>6, <3>1, FS_RemoveElement
  <2>7. CASE ~ e.on /\ a \notin old
    <3>1. new = old /\ m = n
      BY <1>3, <2>2, <2>3, <2>7
    <3>. QED
      BY <2>1, <3>1
  <2>. QED
    BY <2>3, <2>4, <2>5, <2>6, <2>7
<1>8. ASSUME NEW p \in Nat
      PROVE  CountOf(r.likes, p) = Cardinality(Likers(M, p))
  <2>. HIDE DEF m
  <2>1. CASE p = q
    BY <1>2, <1>7, <2>1, CountIs
  <2>2. CASE p # q
    <3>1. CountOf(r.likes, p) = CountOf(k.likes, p)
      BY <1>2, <2>2, CountIs
    <3>. QED
      BY <1>3, <1>4, <2>2, <3>1
  <2>. QED
    BY <2>1, <2>2
<1>9. r.hashes \subseteq {Event(j).block : j \in M \cup R}
  BY <1>2 DEF ReactionsIn
<1>10. ReactionsIn(r, M, R)
  BY <1>2, <1>5, <1>6, <1>8, <1>9 DEF ReactionsIn
<1>. QED
  BY <1>2, <1>10 DEF r

\* The same of a repost.
LEMMA RepostFolded ==
    ASSUME NEW L, NEW R, NEW i, Follows(R, i), Len(events) \in Nat, NEW k,
           IsKept(k),
           ReactionsIn(k, L, R), Event(i).post \in Nat
    PROVE  IsKept(FoldRepost(k, i)) /\ ReactionsIn(FoldRepost(k, i), L, R \cup {i})
<1>. DEFINE e == Event(i)
            q == Event(i).post
            S == R \cup {i}
            n == CountOf(k.reposts, q)
            r == FoldRepost(k, i)
<1>1. r = [k EXCEPT !.reposts = With(k.reposts, q, n + 1),
                    !.hashes = k.hashes \cup {e.block}]
  BY DEF FoldRepost
<1>. HIDE DEF r
<1>2. /\ IsKept(r)
      /\ r.active = k.active /\ r.likes = k.likes
      /\ r.hashes = k.hashes \cup {e.block}
      /\ r.reposts = With(k.reposts, q, n + 1)
  <2>. HIDE DEF e, q, n
  <2>. QED
    BY <1>1 DEF IsKept
<1>3. DOMAIN r.reposts = {Event(j).post : j \in S}
  BY <1>2 DEF ReactionsIn, With
<1>4. ASSUME NEW p \in Nat
      PROVE  CountOf(r.reposts, p) = Cardinality(RepostsOf(S, p))
  <2>1. CASE p = q
    <3>1. CountOf(r.reposts, p) = n + 1
      BY <1>2, <2>1 DEF CountOf, With
    <3>2. n = Cardinality(RepostsOf(R, q))
      BY DEF ReactionsIn
    <3>3. RepostsOf(S, q) = RepostsOf(R, q) \cup {i}
      BY DEF RepostsOf
    <3>4. IsFiniteSet(RepostsOf(R, q)) /\ i \notin RepostsOf(R, q)
      <4>1. IsFiniteSet(1 .. Len(events)) /\ R \subseteq 1 .. Len(events)
        BY FS_Interval DEF Follows
      <4>2. RepostsOf(R, q) \subseteq 1 .. Len(events)
        BY <4>1 DEF RepostsOf
      <4>3. i \notin R
        <5>1. \A j \in R : j \in Nat /\ j < i
          BY DEF Follows
        <5>. QED
          BY <5>1
      <4>. QED
        BY <4>1, <4>2, <4>3, FS_Subset DEF RepostsOf
    <3>. HIDE DEF q, n, S
    <3>5. Cardinality(RepostsOf(R, q) \cup {i}) = Cardinality(RepostsOf(R, q)) + 1
      BY <3>4, FS_AddElement
    <3>. QED
      BY <2>1, <3>1, <3>2, <3>3, <3>5
  <2>2. CASE p # q
    <3>1. CountOf(r.reposts, p) = CountOf(k.reposts, p)
      BY <1>2, <2>2 DEF CountOf, With
    <3>2. RepostsOf(S, p) = RepostsOf(R, p)
      BY <2>2 DEF RepostsOf
    <3>. QED
      BY <3>1, <3>2 DEF ReactionsIn
  <2>. QED
    BY <2>1, <2>2
<1>5. r.hashes \subseteq {Event(j).block : j \in L \cup S}
  BY <1>2 DEF ReactionsIn
<1>6. ReactionsIn(r, L, S)
  BY <1>2, <1>3, <1>4, <1>5 DEF ReactionsIn
<1>. QED
  BY <1>2, <1>6 DEF r

-----------------------------------------------------------------------------
(* Any projection.                                                          *)

\* What is derived is that of the events of A, stream by stream.
Derived(k, A) ==
    /\ IsKept(k)
    /\ Relational => RelationsIn(k, A["events"])
    /\ view = "profiles" => ProfilesIn(k, A["events"])
    /\ view = "comments" => CommentsIn(k, A["events"])
    /\ view = "reactions" => ReactionsIn(k, A["likes"], A["reposts"])

\* A fold step of any projection, from what is derived of the events applied
\* before to what is derived of one event more.
LEMMA DerivedFolded ==
    ASSUME Len(events) \in Nat, NEW s \in Stream,
           NEW A \in [Stream -> SUBSET (1 .. Len(events))], NEW i,
           Follows(A[s], i), InScope(s, Event(i)), WellFormed(Event(i)),
           issued \in [Family -> Nat], NEW k, Derived(k, A)
    PROVE  Derived(Fold(s, k, i), [A EXCEPT ![s] = A[s] \cup {i}])
<1>. DEFINE e == Event(i)
            B == [A EXCEPT ![s] = A[s] \cup {i}]
<1>1. B[s] = A[s] \cup {i} /\ \A u \in Stream : u # s => B[u] = A[u]
  OBVIOUS
<1>2. IsKept(k)
  BY DEF Derived
<1>3. e.account \in Account
  BY DEF WellFormed
<1>. HIDE DEF B
<1>4. CASE Relational
  <2>1. s = "events" /\ view # "profiles" /\ view # "comments" /\ view # "reactions"
    BY <1>4 DEF Relational, Stream
  <2>2. Counterpart(e) \in Account /\ e.on \in BOOLEAN
    <3>1. e.event \in {"FollowSet", "GroupMembershipSet"}
          /\ (view = "following" => e.event = "FollowSet")
      BY <1>4 DEF InScope, Relational
    <3>. QED
      BY <3>1 DEF WellFormed, Counterpart
  <2>3. Fold(s, k, i) = FoldRelation(k, i)
    BY <1>4, <2>1 DEF Fold
  <2>4. RelationsIn(k, A[s])
    BY <1>4, <2>1 DEF Derived
  <2>5. IsKept(FoldRelation(k, i)) /\ RelationsIn(FoldRelation(k, i), A[s] \cup {i})
    BY <1>2, <2>2, <2>4, RelationFolded
  <2>6. Derived(FoldRelation(k, i), B)
    BY <1>1, <1>4, <2>1, <2>5 DEF Derived
  <2>. QED
    BY <2>3, <2>6 DEF B
<1>5. CASE view = "profiles"
  <2>1. s = "events" /\ ~ Relational
    BY <1>5 DEF Relational, Stream
  <2>2. Fold(s, k, i) = FoldProfile(k, i)
    BY <1>5, <2>1 DEF Fold
  <2>3. ProfilesIn(k, A[s])
    BY <1>5, <2>1 DEF Derived
  <2>4. IsKept(FoldProfile(k, i)) /\ ProfilesIn(FoldProfile(k, i), A[s] \cup {i})
    BY <1>2, <2>3, ProfileFolded
  <2>5. Derived(FoldProfile(k, i), B)
    BY <1>1, <1>5, <2>1, <2>4 DEF Derived
  <2>. QED
    BY <2>2, <2>5 DEF B
<1>6. CASE view = "comments"
  <2>1. s = "events" /\ ~ Relational
    BY <1>6 DEF Relational, Stream
  <2>2. Fold(s, k, i) = FoldComment(k, i)
    BY <1>6, <2>1 DEF Fold
  <2>3. CommentsIn(k, A[s])
    BY <1>6, <2>1 DEF Derived
  <2>4. IsKept(FoldComment(k, i)) /\ CommentsIn(FoldComment(k, i), A[s] \cup {i})
    BY <1>2, <2>3, CommentFolded
  <2>5. Derived(FoldComment(k, i), B)
    BY <1>1, <1>6, <2>1, <2>4 DEF Derived
  <2>. QED
    BY <2>2, <2>5 DEF B
<1>7. CASE view = "reactions"
  <2>1. s \in {"likes", "reposts"} /\ Stream = {"likes", "reposts"} /\ ~ Relational
    BY <1>7 DEF Relational, Stream
  <2>2. ReactionsIn(k, A["likes"], A["reposts"])
    BY <1>7 DEF Derived
  <2>3. Fold(s, k, i) = IF s = "likes" THEN FoldLike(k, i) ELSE FoldRepost(k, i)
    BY <1>7, <2>1 DEF Fold
  <2>4. e.post \in Nat /\ (s = "likes" => e.on \in BOOLEAN)
    <3>1. /\ s = "likes" => e.event = "LikeSet" /\ e.kind = "post"
          /\ s = "reposts" => e.event = "RepostPublished"
      BY <1>7, <2>1 DEF InScope
    <3>2. issued["post"] \in Nat
      BY DEF Family
    <3>. QED
      BY <2>1, <3>1, <3>2 DEF WellFormed
  <2>5. CASE s = "likes"
    <3>1. /\ IsKept(FoldLike(k, i))
          /\ ReactionsIn(FoldLike(k, i), A["likes"] \cup {i}, A["reposts"])
      BY <1>2, <1>3, <2>2, <2>4, <2>5, LikeFolded
    <3>2. Derived(FoldLike(k, i), B)
      BY <1>1, <1>7, <2>1, <2>5, <3>1 DEF Derived
    <3>. QED
      BY <2>3, <2>5, <3>2 DEF B
  <2>6. CASE s = "reposts"
    <3>1. /\ IsKept(FoldRepost(k, i))
          /\ ReactionsIn(FoldRepost(k, i), A["likes"], A["reposts"] \cup {i})
      BY <1>2, <2>2, <2>4, <2>6, RepostFolded
    <3>2. Derived(FoldRepost(k, i), B)
      BY <1>1, <1>7, <2>1, <2>6, <3>1 DEF Derived
    <3>. QED
      BY <2>3, <2>6, <3>2 DEF B
  <2>. QED
    BY <2>1, <2>5, <2>6
<1>8. view \in {"followers", "following", "members", "profiles", "comments", "reactions"}
  BY DEF InScope
<1>. QED
  BY <1>4, <1>5, <1>6, <1>7, <1>8 DEF Relational

\* Blocks only go up, the one in the making is the last.
Ordered ==
    /\ \A i \in 1 .. Len(events) : Event(i).block \in 1 .. block
    /\ \A i, j \in 1 .. Len(events) : i < j => Event(i).block <= Event(j).block

\* Every event is as the contract emits it.
Genuine == \A i \in 1 .. Len(events) : WellFormed(Event(i)) /\ Readable(Event(i))

AppliedIn(s) == Through(s, next[s] - 1)

\* The number of events is a number.
LEMMA LenIsNat ==
    ASSUME ContractTypes
    PROVE  Len(events) \in Nat
  BY DEF ContractTypes

\* A page holds the next events of its stream, and continues those before.
LEMMA PageIsNext ==
    ASSUME ContractTypes, Ordered, next \in [Stream -> Nat \ {0}],
           NEW s \in Stream,
           NEW to \in Nat, next[s] <= to
    PROVE  /\ Page(s, to) \subseteq 1 .. Len(events)
           /\ Through(s, to) = AppliedIn(s) \cup Page(s, to)
           /\ \A j \in AppliedIn(s), i \in Page(s, to) : j < i
           /\ \A i \in Page(s, to) : InScope(s, Event(i)) /\ Event(i).block >= next[s]
           /\ AppliedIn(s) \subseteq 1 .. Len(events)
           /\ \A j \in AppliedIn(s) : Event(j).block < next[s]
<1>1. Len(events) \in Nat /\ next[s] \in Nat \ {0}
  BY LenIsNat
<1>2. \A i \in 1 .. Len(events) :
          i # NotYet /\ BlockNumber(i) = Event(i).block /\ Event(i).block \in Nat
  BY <1>1 DEF Ordered, NotYet, BlockNumber, Event, ContractTypes
<1>3. AppliedIn(s) = {i \in 1 .. Len(events) : InScope(s, Event(i)) /\ Event(i).block < next[s]}
  BY <1>1, <1>2 DEF AppliedIn, Through
<1>4. Through(s, to) = {i \in 1 .. Len(events) : InScope(s, Event(i)) /\ Event(i).block <= to}
  BY <1>2 DEF Through
<1>5. Page(s, to) = {i \in 1 .. Len(events) :
          InScope(s, Event(i)) /\ Event(i).block <= to /\ Event(i).block >= next[s]}
  BY <1>2, <1>4 DEF Page
<1>6. Through(s, to) = AppliedIn(s) \cup Page(s, to)
  <2>1. \A i \in 1 .. Len(events) :
            Event(i).block <= to <=>
                Event(i).block < next[s]
                \/ (Event(i).block <= to /\ Event(i).block >= next[s])
    BY <1>1, <1>2
  <2>. QED
    BY <1>3, <1>4, <1>5, <2>1
<1>7. ASSUME NEW j \in AppliedIn(s), NEW i \in Page(s, to)  PROVE j < i
  <2>1. /\ i \in 1 .. Len(events) /\ j \in 1 .. Len(events)
        /\ Event(j).block < next[s] /\ Event(i).block >= next[s]
    BY <1>3, <1>5
  <2>2. Event(i).block \in Nat /\ Event(j).block \in Nat /\ next[s] \in Nat
    BY <1>1, <1>2, <2>1
  <2>3. i # j /\ ~ (i < j)
    BY <2>1, <2>2 DEF Ordered
  <2>. QED
    BY <1>1, <2>1, <2>3
<1>. QED
  BY <1>3, <1>5, <1>6, <1>7

\* A page leaves what the events up to its end say.
LEMMA PageFolded ==
    ASSUME ContractTypes, Ordered, Genuine, next \in [Stream -> Nat \ {0}],
           NEW s \in Stream, NEW to \in Nat, next[s] <= to,
           NEW A, A = [u \in Stream |-> AppliedIn(u)],
           A \in [Stream -> SUBSET (1 .. Len(events))],
           Derived(kept, A)
    PROVE  Derived(AfterPage(s, Page(s, to)), [A EXCEPT ![s] = Through(s, to)])
<1>. DEFINE page == Page(s, to)
            n == Len(events)
            Done(i) == {j \in page : j <= i}
            Upto(i) == [A EXCEPT ![s] = A[s] \cup Done(i)]
<1>1. n \in Nat
  BY LenIsNat
<1>2. PICK g : /\ g[0] = kept
               /\ \A i \in 1 .. n :
                     g[i] = IF i \in page THEN Fold(s, g[i - 1], i) ELSE g[i - 1]
               /\ AfterPage(s, page) = g[n]
  BY <1>1, AfterPageFolds
<1>3. /\ page \subseteq 1 .. n
      /\ Through(s, to) = A[s] \cup page
      /\ \A j \in A[s], i \in page : j < i
      /\ \A i \in page : InScope(s, Event(i))
      /\ A[s] \subseteq 1 .. n
  BY PageIsNext
<1>4. A \in [Stream -> SUBSET (1 .. n)]
  OBVIOUS
<1>. HIDE DEF page, n
<1>9. \A j \in page : j \in Nat /\ 1 <= j /\ j <= n
  BY <1>1, <1>3
<1>10. \A i \in 0 .. n : Done(i) \subseteq 1 .. n
  BY <1>3
<1>11. \A i \in 0 .. n :
          Upto(i) \in [Stream -> SUBSET (1 .. n)] /\ Upto(i)[s] = A[s] \cup Done(i)
  <2>. HIDE DEF Done
  <2>. QED
    BY <1>3, <1>4, <1>10
<1>5. ASSUME NEW i \in 1 .. n, Derived(g[i - 1], Upto(i - 1))
      PROVE  Derived(g[i], Upto(i))
  <2>1. CASE i \in page
    <3>1. Done(i) = Done(i - 1) \cup {i}
      <4>1. \A j \in page : j <= i <=> j <= i - 1 \/ j = i
        BY <1>1, <1>9
      <4>2. i <= i
        BY <1>1
      <4>. QED
        BY <2>1, <4>1, <4>2
    <3>2. Follows(A[s] \cup Done(i - 1), i)
      <4>1. A[s] \cup Done(i - 1) \subseteq 1 .. n
        BY <1>3
      <4>2. \A j \in A[s] : j < i
        BY <1>3, <2>1
      <4>3. \A j \in Done(i - 1) : j < i
        BY <1>1, <1>9
      <4>. QED
        BY <4>1, <4>2, <4>3 DEF Follows, n
    <3>3. Upto(i) = [Upto(i - 1) EXCEPT ![s] = Upto(i - 1)[s] \cup {i}]
      <4>. DEFINE U == Upto(i - 1)
      <4>1. U[s] \cup {i} = A[s] \cup Done(i)
        BY <3>1
      <4>2. [U EXCEPT ![s] = U[s] \cup {i}] = [A EXCEPT ![s] = A[s] \cup Done(i)]
        <5>. HIDE DEF Done
        <5>. QED
          BY <4>1
      <4>. QED
        BY <4>2
    <3>4. InScope(s, Event(i)) /\ WellFormed(Event(i)) /\ issued \in [Family -> Nat]
      BY <1>3, <2>1 DEF Genuine, ContractTypes, n
    <3>5. g[i] = Fold(s, g[i - 1], i)
      BY <1>2, <2>1
    <3>6. i - 1 \in 0 .. n
      BY <1>1
    <3>7. Upto(i - 1) \in [Stream -> SUBSET (1 .. n)]
          /\ Upto(i - 1)[s] = A[s] \cup Done(i - 1)
      BY <1>11, <3>6
    <3>. HIDE DEF Upto, Done
    <3>8. Derived(Fold(s, g[i - 1], i), [Upto(i - 1) EXCEPT ![s] = Upto(i - 1)[s] \cup {i}])
      BY <1>1, <1>5, <3>2, <3>4, <3>7, DerivedFolded DEF n
    <3>. QED
      BY <3>3, <3>5, <3>8
  <2>2. CASE i \notin page
    <3>1. Done(i) = Done(i - 1)
      BY <1>1, <1>9, <2>2
    <3>2. g[i] = g[i - 1]
      BY <1>2, <2>2
    <3>3. Upto(i) = Upto(i - 1)
      <4>. HIDE DEF Done
      <4>. QED
        BY <3>1
    <3>. QED
      BY <1>5, <3>2, <3>3
  <2>. QED
    BY <2>1, <2>2
<1>6. Derived(g[0], Upto(0))
  <2>1. Done(0) = {}
    BY <1>1, <1>9
  <2>2. Upto(0) = A
    <3>. HIDE DEF Done
    <3>. QED
      BY <1>4, <2>1
  <2>. QED
    BY <1>2, <2>2
<1>. HIDE DEF Upto, Done
<1>7. Derived(g[n], Upto(n))
  <2>. DEFINE T == {i \in 0 .. n : ~ Derived(g[i], Upto(i))}
  <2>. SUFFICES ASSUME T # {}  PROVE FALSE
    BY <1>1
  <2>1. PICK i \in T : \A j \in T : i <= j
    <3>. T \in SUBSET Nat
      OBVIOUS
    <3>. HIDE DEF T
    <3>. QED
      BY LeastNumber
  <2>2. i # 0
    BY <1>6
  <2>3. i \in 1 .. n /\ i - 1 \in 0 .. n /\ i - 1 \notin T
    BY <1>1, <2>1, <2>2
  <2>. QED
    BY <1>5, <2>3
<1>8. Upto(n) = [A EXCEPT ![s] = Through(s, to)]
  <2>1. Done(n) = page
    BY <1>1, <1>9 DEF Done
  <2>. QED
    BY <1>3, <2>1 DEF Upto
<1>. QED
  BY <1>2, <1>7, <1>8 DEF page

-----------------------------------------------------------------------------
(* What is derived says nothing of later events.                            *)

\* Nothing that was derived is of an event that comes later.
LEMMA StillDerived ==
    ASSUME NEW k, NEW A, Len(events) \in Nat, view \in View,
           A \in [Stream -> SUBSET (1 .. Len(events))], Derived(k, A),
           view' = view, \A i \in 1 .. Len(events) : events'[i] = events[i]
    PROVE  Derived(k, A)'
<1>. DEFINE n == Len(events)
<1>1. \A i \in 1 .. n : Event(i)' = Event(i)
  BY DEF Event
<1>2. IsKept(k)'
  BY DEF Derived, IsKept
<1>3. Stream' = Stream /\ Relational' = Relational
  BY DEF Stream, Relational
<1>4. ASSUME Relational
      PROVE  RelationsIn(k, A["events"])'
  <2>. DEFINE S == A["events"]
  <2>1. S \in SUBSET (1 .. n) /\ RelationsIn(k, S)
    BY <1>4 DEF Stream, Relational, Derived
  <2>. HIDE DEF S
  <2>2. \A i \in S : Counterpart(Event(i))' = Counterpart(Event(i))
    BY <1>1, <2>1 DEF Counterpart
  <2>3. \A a : About(S, a)' = About(S, a)
    BY <2>2 DEF About
  <2>4. \A a : LatestIn(S, a)' = LatestIn(S, a)
    BY <2>3 DEF LatestIn, LastIn
  <2>5. \A a : LatestIn(S, a) # NotYet => LatestIn(S, a) \in S
    <3>. SUFFICES ASSUME NEW a, LatestIn(S, a) # NotYet
                  PROVE  LatestIn(S, a) \in S
      OBVIOUS
    <3>1. About(S, a) \in SUBSET (1 .. n) /\ n \in Nat
      BY <2>1 DEF About
    <3>. HIDE DEF n
    <3>2. LastIn(About(S, a)) \in About(S, a) \cup {NotYet}
      BY <3>1, LastIsLast
    <3>. QED
      BY <3>2 DEF LatestIn, About
  <2>6. OnIn(S)' = OnIn(S)
    <3>1. ASSUME NEW a, LatestIn(S, a) # NotYet
          PROVE  Event(LatestIn(S, a))' = Event(LatestIn(S, a))
      <4>. DEFINE i == LatestIn(S, a)
      <4>1. i \in 1 .. n /\ i' = i
        BY <2>1, <2>4, <2>5, <3>1
      <4>2. events'[i] = events[i]
        BY <4>1
      <4>. HIDE DEF i
      <4>. QED
        BY <4>1, <4>2 DEF Event, i
    <3>2. \A a : (LatestIn(S, a) # NotYet)' = (LatestIn(S, a) # NotYet)
      BY <2>4 DEF NotYet
    <3>. QED
      BY <3>1, <3>2 DEF OnIn
  <2>7. \A a \in OnIn(S) : BlockNumber(LatestIn(S, a))' = BlockNumber(LatestIn(S, a))
    <3>. SUFFICES ASSUME NEW a \in OnIn(S)
                  PROVE  BlockNumber(LatestIn(S, a))' = BlockNumber(LatestIn(S, a))
      OBVIOUS
    <3>. DEFINE i == LatestIn(S, a)
    <3>1. i \in 1 .. n /\ i' = i
      BY <2>1, <2>4, <2>5 DEF OnIn
    <3>2. events'[i] = events[i]
      BY <3>1
    <3>. HIDE DEF i
    <3>. QED
      BY <3>1, <3>2 DEF BlockNumber, i
  <2>. DEFINE f == [a \in Account |-> LatestIn(S, a)]
  <2>8. f' = f
    BY <2>4
  <2>9. \A a \in OnIn(S) : a \in Account /\ f[a] = LatestIn(S, a)
    BY DEF OnIn
  <2>10. RelationsOf(k, OnIn(S), f)
    BY <2>1 DEF RelationsIn
  <2>. QED
    <3>1. k.entries = [a \in OnIn(S)' |-> f'[a]]
      BY <2>6, <2>8, <2>10 DEF RelationsOf
    <3>2. k.index = UNION {Prefixes(a) : a \in OnIn(S)'}
      BY <2>6, <2>10 DEF RelationsOf
    <3>3. \A a \in OnIn(S) : BlockNumber(f[a])' = BlockNumber(f[a])
      BY <2>4, <2>7, <2>9
    <3>4. \A b : Sharing(OnIn(S), f, b)' = Sharing(OnIn(S), f, b)
      BY <2>6, <3>3 DEF Sharing
    <3>5. {BlockNumber(f[a]) : a \in OnIn(S)}' = {BlockNumber(f[a]) : a \in OnIn(S)}
      BY <2>6, <3>3
    <3>6. k.blocks = [b \in {BlockNumber(f[a]) : a \in OnIn(S)} |->
                          Cardinality(Sharing(OnIn(S), f, b))]
      BY <2>10 DEF RelationsOf
    <3>. HIDE DEF f
    <3>7. RelationsOf(k, OnIn(S), f)'
      BY <3>1, <3>2, <3>4, <3>5, <3>6 DEF RelationsOf
    <3>. QED
      BY <3>7 DEF RelationsIn, f, S
<1>5. ASSUME view = "profiles"
      PROVE  ProfilesIn(k, A["events"])'
  <2>. DEFINE S == A["events"]
  <2>1. S \in SUBSET (1 .. n) /\ ProfilesIn(k, S)
    BY <1>5 DEF Stream, Derived
  <2>. HIDE DEF S
  <2>2. \A a : ByAccount(S, a)' = ByAccount(S, a)
    BY <1>1, <2>1 DEF ByAccount
  <2>3. ProfilesIn(k, S)'
    BY <2>1, <2>2 DEF ProfilesIn, LastIn
  <2>. QED
    BY <2>3 DEF S
<1>6. ASSUME view = "comments"
      PROVE  CommentsIn(k, A["events"])'
  <2>. DEFINE S == A["events"]
  <2>1. S \in SUBSET (1 .. n) /\ CommentsIn(k, S)
    BY <1>6 DEF Stream, Derived
  <2>. HIDE DEF S
  <2>2. \A post : CommentsOn(S, post)' = CommentsOn(S, post)
    BY <1>1, <2>1 DEF CommentsOn
  <2>3. CommentsIn(k, S)'
    BY <2>1, <2>2 DEF CommentsIn, Listed, Got
  <2>. QED
    BY <2>3 DEF S
<1>7. ASSUME view = "reactions"
      PROVE  ReactionsIn(k, A["likes"], A["reposts"])'
  <2>. DEFINE L == A["likes"]
              R == A["reposts"]
  <2>1. /\ L \in SUBSET (1 .. n) /\ R \in SUBSET (1 .. n)
        /\ ReactionsIn(k, L, R)
    BY <1>7 DEF Stream, Derived
  <2>. HIDE DEF L, R
  <2>2. \A p, a : LikesBy(L, p, a)' = LikesBy(L, p, a)
    BY <1>1, <2>1 DEF LikesBy
  <2>3. \A p, a : LastIn(LikesBy(L, p, a)) # NotYet => LastIn(LikesBy(L, p, a)) \in 1 .. n
    <3>. SUFFICES ASSUME NEW p, NEW a, LastIn(LikesBy(L, p, a)) # NotYet
                  PROVE  LastIn(LikesBy(L, p, a)) \in 1 .. n
      OBVIOUS
    <3>1. LikesBy(L, p, a) \in SUBSET (1 .. n) /\ n \in Nat
      BY <2>1 DEF LikesBy
    <3>. HIDE DEF n
    <3>2. LastIn(LikesBy(L, p, a)) \in LikesBy(L, p, a) \cup {NotYet}
      BY <3>1, LastIsLast
    <3>. QED
      BY <3>1, <3>2
  <2>4. \A p : Likers(L, p)' = Likers(L, p)
    <3>1. \A p, a : LastIn(LikesBy(L, p, a))' = LastIn(LikesBy(L, p, a))
      BY <2>2 DEF LastIn
    <3>2. \A p, a : LastIn(LikesBy(L, p, a)) # NotYet =>
              Event(LastIn(LikesBy(L, p, a)))' = Event(LastIn(LikesBy(L, p, a)))
      <4>. SUFFICES ASSUME NEW p, NEW a, LastIn(LikesBy(L, p, a)) # NotYet
                    PROVE  Event(LastIn(LikesBy(L, p, a)))'
                               = Event(LastIn(LikesBy(L, p, a)))
        OBVIOUS
      <4>. DEFINE i == LastIn(LikesBy(L, p, a))
      <4>1. i \in 1 .. n /\ i' = i
        BY <2>3, <3>1
      <4>2. events'[i] = events[i]
        BY <4>1
      <4>. HIDE DEF i
      <4>. QED
        BY <4>1, <4>2 DEF Event, i
    <3>3. \A p, a : (LastIn(LikesBy(L, p, a)) # NotYet)' = (LastIn(LikesBy(L, p, a)) # NotYet)
      BY <3>1 DEF NotYet
    <3>. QED
      BY <3>2, <3>3 DEF Likers
  <2>5. \A p : RepostsOf(R, p)' = RepostsOf(R, p)
    BY <1>1, <2>1 DEF RepostsOf
  <2>6. \A i \in L \cup R : Event(i)' = Event(i)
    BY <1>1, <2>1
  <2>7. {Event(i).post : i \in R}' = {Event(i).post : i \in R}
    BY <2>6
  <2>8. {Event(i).block : i \in L \cup R}' = {Event(i).block : i \in L \cup R}
    BY <2>6
  <2>9. ReactionsIn(k, L, R)'
    <3>1. \A p \in Nat, a \in Account : <<p, a>> \in k.active <=> a \in Likers(L, p)'
      BY <2>1, <2>4 DEF ReactionsIn
    <3>2. \A p \in Nat : CountOf(k.likes, p) = Cardinality(Likers(L, p)')
      BY <2>1, <2>4 DEF ReactionsIn
    <3>3. \A p \in Nat : CountOf(k.reposts, p) = Cardinality(RepostsOf(R, p)')
      BY <2>1, <2>5 DEF ReactionsIn
    <3>4. DOMAIN k.reposts = {Event(i).post : i \in R}'
      BY <2>1, <2>7 DEF ReactionsIn
    <3>5. k.hashes \subseteq {Event(i).block : i \in L \cup R}'
      BY <2>1, <2>8 DEF ReactionsIn
    <3>6. k.active \subseteq Nat \X Account
      BY <2>1 DEF ReactionsIn
    <3>. QED
      BY <3>1, <3>2, <3>3, <3>4, <3>5, <3>6 DEF ReactionsIn
  <2>. QED
    BY <2>9 DEF L, R
<1>. QED
  BY <1>2, <1>3, <1>4, <1>5, <1>6, <1>7 DEF Derived

-----------------------------------------------------------------------------
(* The invariant.                                                           *)

CommentsUpTo(n) == {i \in 1 .. n : Event(i).event = "CommentPublished"}

\* Comments are numbered in the order of their events, without a gap.
Numbered ==
    /\ issued["comment"] = Cardinality(CommentsUpTo(Len(events)))
    /\ \A i \in CommentsUpTo(Len(events)) :
          Event(i).id = Cardinality(CommentsUpTo(i))

ContractInv == ContractTypes /\ Ordered /\ Genuine /\ Numbered

\* What each stream has applied.
SoFar == [s \in Stream |-> AppliedIn(s)]

\* Where the streams are: all at the block after the confirmed one between
\* scans, and no further than the anchor during one.
Placed ==
    /\ view \in View
    /\ anchor \in Nat /\ confirmed \in Nat
    /\ anchor < block /\ confirmed < block
    /\ next \in [Stream -> Nat \ {0}]
    /\ \A s \in Stream :
          /\ next[s] <= block
          /\ anchor = NotYet => next[s] = confirmed + 1
          /\ anchor # NotYet => /\ confirmed < anchor
                                /\ confirmed < next[s]
                                /\ next[s] <= anchor + 1

LastApplied == last = [s \in Stream |-> LastIn(AppliedIn(s))]

DerivedSoFar == \A k, A : k = kept /\ A = SoFar => Derived(k, A)

\* Every event up to the anchor of a scan was decoded before the scan began.
LetThroughAnchor == anchor # NotYet => LetThrough(anchor)

ProjectionInv ==
    ContractInv /\ Placed /\ LastApplied /\ DerivedSoFar /\ LetThroughAnchor

-----------------------------------------------------------------------------
(* The contract moves.                                                      *)

\* What a call appends comes after everything, and leaves the rest alone.
LEMMA CallAppends ==
    ASSUME ContractTypes, NEW e, Called(e), NEW n, n = Len(events)
    PROVE  /\ n \in Nat /\ Len(events') = n + 1
           /\ \A i \in 1 .. n : Event(i)' = Event(i)
           /\ Event(n + 1)' = e
           /\ 1 .. Len(events') = (1 .. n) \cup {n + 1}
           /\ ContractTypes'
<1>1. PICK S : events \in Seq(S)
  BY DEF ContractTypes
<1>2. events' = Append(events, e)
  BY DEF Called
<1>3. /\ Len(events) \in Nat /\ Len(events') = Len(events) + 1
      /\ \A i \in 1 .. Len(events) : events'[i] = events[i]
      /\ events'[Len(events) + 1] = e
  <2>1. events \in Seq(S \cup {e}) /\ e \in S \cup {e}
    BY <1>1
  <2>. HIDE DEF Event
  <2>. QED
    BY <1>1, <1>2, <2>1
<1>4. events' \in Seq(S \cup {e})
  <2>1. events \in Seq(S \cup {e}) /\ e \in S \cup {e}
    BY <1>1
  <2>. QED
    BY <1>2, <2>1
<1>5. ContractTypes'
  BY <1>4 DEF ContractTypes, Called
<1>6. 1 .. Len(events') = (1 .. n) \cup {n + 1}
  BY <1>3
<1>. QED
  BY <1>3, <1>5, <1>6 DEF Event

\* A call keeps the events in order, sound and numbered.
LEMMA CallKeeps ==
    ASSUME ContractInv, NEW e, Called(e)
    PROVE  ContractInv'
<1>. PICK n : n = Len(events)
  OBVIOUS
<1>1. /\ n \in Nat /\ Len(events') = n + 1
      /\ \A i \in 1 .. n : Event(i)' = Event(i)
      /\ Event(n + 1)' = e
      /\ 1 .. Len(events') = (1 .. n) \cup {n + 1}
      /\ ContractTypes'
  BY CallAppends DEF ContractInv
<1>2. block' = block /\ e.block = block /\ block \in Nat \ {0}
  BY DEF Called, ContractInv, ContractTypes
<1>3. Ordered'
  <2>1. \A i \in 1 .. Len(events') : Event(i)'.block \in 1 .. block
    BY <1>1, <1>2 DEF ContractInv, Ordered
  <2>2. ASSUME NEW i \in 1 .. Len(events'), NEW j \in 1 .. Len(events'), i < j
        PROVE  Event(i)'.block <= Event(j)'.block
    <3>1. CASE j \in 1 .. n
      <4>1. i \in 1 .. n
        BY <1>1, <2>2, <3>1
      <4>2. Event(i).block <= Event(j).block
        BY <2>2, <3>1, <4>1 DEF ContractInv, Ordered
      <4>. QED
        BY <1>1, <3>1, <4>1, <4>2
    <3>2. CASE j = n + 1
      <4>1. Event(j)'.block = block
        BY <1>1, <1>2, <3>2
      <4>2. Event(i)'.block \in 1 .. block
        BY <2>1
      <4>. QED
        BY <1>2, <4>1, <4>2
    <3>. QED
      BY <1>1, <3>1, <3>2
  <2>. QED
    BY <1>2, <2>1, <2>2 DEF Ordered
<1>4. Genuine'
  <2>1. \A f \in Family : issued[f] \in Nat /\ issued'[f] \in Nat /\ issued[f] <= issued'[f]
    BY DEF Called, ContractInv, ContractTypes
  <2>2. issued["post"] \in Nat /\ issued'["post"] \in Nat /\ issued["post"] <= issued'["post"]
        /\ issued["comment"] \in Nat /\ issued'["comment"] \in Nat
        /\ issued["comment"] <= issued'["comment"]
    BY <2>1 DEF Family
  <2>3. ASSUME NEW d, WellFormed(d)  PROVE WellFormed(d)'
    <3>1. \A x : x \in 1 .. issued["post"] => x \in 1 .. issued'["post"]
      BY <2>2
    <3>2. \A x : x \in 1 .. issued["comment"] => x \in 1 .. issued'["comment"]
      BY <2>2
    <3>. QED
      BY <2>3, <3>1, <3>2 DEF WellFormed
  <2>4. WellFormed(e)' /\ Readable(e)
    BY <2>3 DEF Called
  <2>5. ASSUME NEW i \in 1 .. Len(events')
        PROVE  WellFormed(Event(i))' /\ Readable(Event(i))'
    <3>1. CASE i \in 1 .. n
      <4>. DEFINE d == Event(i)
      <4>1. WellFormed(d) /\ Readable(d)
        BY <3>1 DEF ContractInv, Genuine
      <4>2. events'[i] = events[i]
        BY <1>1, <3>1 DEF Event
      <4>3. PICK x : x = events[i]
        OBVIOUS
      <4>4. WellFormed(x)' /\ Readable(x)
        BY <2>3, <4>1, <4>3 DEF Event
      <4>. QED
        BY <4>2, <4>3, <4>4 DEF Event
    <3>2. CASE i = n + 1
      <4>1. events'[i] = e
        BY <1>1, <3>2 DEF Event
      <4>. QED
        BY <2>4, <4>1 DEF Event
    <3>. QED
      BY <1>1, <3>1, <3>2
  <2>. QED
    BY <2>5 DEF Genuine
<1>5. Numbered'
  <2>. DEFINE C == CommentsUpTo(n)
  <2>1. \A i \in 1 .. n : CommentsUpTo(i)' = CommentsUpTo(i)
    <3>1. \A i \in 1 .. n : \A j \in 1 .. i : j \in 1 .. n
      BY <1>1
    <3>. QED
      BY <1>1, <3>1 DEF CommentsUpTo
  <2>2. CommentsUpTo(n + 1)' = IF e.event = "CommentPublished" THEN C \cup {n + 1} ELSE C
    BY <1>1 DEF CommentsUpTo
  <2>3. IsFiniteSet(C) /\ Cardinality(C) = issued["comment"] /\ n + 1 \notin C
    <3>1. IsFiniteSet(1 .. n) /\ C \subseteq 1 .. n
      BY <1>1, FS_Interval DEF CommentsUpTo
    <3>2. n + 1 \notin 1 .. n
      BY <1>1
    <3>. QED
      BY <3>1, <3>2, FS_Subset DEF ContractInv, Numbered
  <2>4. Cardinality(CommentsUpTo(n + 1)') = issued'["comment"]
    <3>1. CASE e.event = "CommentPublished"
      <4>1. Cardinality(C \cup {n + 1}) = Cardinality(C) + 1
        <5>. HIDE DEF C
        <5>. QED
          BY <2>3, FS_AddElement
      <4>. QED
        BY <2>2, <2>3, <3>1, <4>1 DEF Called
    <3>2. CASE e.event # "CommentPublished"
      BY <2>2, <2>3, <3>2 DEF Called
    <3>. QED
      BY <3>1, <3>2
  <2>5. ASSUME NEW i \in 1 .. Len(events'), Event(i)'.event = "CommentPublished"
        PROVE  Event(i)'.id = Cardinality(CommentsUpTo(i)')
    <3>1. i \in 1 .. Len(events') /\ Event(i)'.event = "CommentPublished"
      BY <2>5
    <3>2. CASE i \in 1 .. n
      <4>1. i \in CommentsUpTo(n)
        BY <1>1, <3>1, <3>2 DEF CommentsUpTo
      <4>2. Event(i).id = Cardinality(CommentsUpTo(i))
        BY <4>1 DEF ContractInv, Numbered
      <4>. QED
        BY <1>1, <2>1, <3>2, <4>2
    <3>3. CASE i = n + 1
      <4>1. e.event = "CommentPublished" /\ Event(i)' = e
        BY <1>1, <3>1, <3>3
      <4>2. e.id = issued'["comment"]
        BY <4>1 DEF Called
      <4>. QED
        BY <2>4, <3>3, <4>1, <4>2
    <3>. QED
      BY <1>1, <3>1, <3>2, <3>3
  <2>. QED
    BY <1>1, <2>4, <2>5 DEF Numbered, CommentsUpTo
<1>. QED
  BY <1>1, <1>3, <1>4, <1>5 DEF ContractInv

\* What is applied are events, all before the block the next page starts with.
LEMMA AppliedIs ==
    ASSUME ContractInv, next \in [Stream -> Nat \ {0}], NEW s \in Stream
    PROVE  /\ AppliedIn(s) = {i \in 1 .. Len(events) :
                                  InScope(s, Event(i)) /\ Event(i).block < next[s]}
           /\ AppliedIn(s) \in SUBSET (1 .. Len(events))
           /\ Len(events) \in Nat
           /\ SoFar \in [Stream -> SUBSET (1 .. Len(events))]
           /\ \A i \in 1 .. Len(events) :
                 BlockNumber(i) = Event(i).block /\ Event(i).block \in Nat \ {0}
<1>1. Len(events) \in Nat
  BY LenIsNat DEF ContractInv
<1>2. ASSUME NEW i \in 1 .. Len(events)
      PROVE  BlockNumber(i) = Event(i).block /\ Event(i).block \in Nat \ {0}
  <2>1. Event(i).block \in 1 .. block /\ block \in Nat
    BY DEF ContractInv, ContractTypes, Ordered
  <2>. QED
    BY <1>1, <2>1 DEF NotYet, BlockNumber, Event
<1>3. ASSUME NEW u \in Stream
      PROVE  AppliedIn(u) = {i \in 1 .. Len(events) :
                                 InScope(u, Event(i)) /\ Event(i).block < next[u]}
  <2>1. next[u] \in Nat \ {0}
    OBVIOUS
  <2>2. \A i \in 1 .. Len(events) : BlockNumber(i) <= next[u] - 1 <=> Event(i).block < next[u]
    BY <1>2, <2>1
  <2>. QED
    BY <2>2 DEF AppliedIn, Through
<1>4. \A u \in Stream : AppliedIn(u) \in SUBSET (1 .. Len(events))
  BY <1>3
<1>5. SoFar \in [Stream -> SUBSET (1 .. Len(events))]
  BY <1>4 DEF SoFar
<1>. QED
  BY <1>1, <1>2, <1>3, <1>4, <1>5

\* The filter of a stream is that of its projection.
LEMMA ScopeStays ==
    ASSUME view' = view
    PROVE  /\ Stream' = Stream
           /\ \A s, d : InScope(s, d)' <=> InScope(s, d)
  BY DEF Stream, InScope

\* What is emitted after a scan is in blocks that were not scanned.
LEMMA AppliedStays ==
    ASSUME ContractInv, Placed, anchor = NotYet, UNCHANGED <<view, next>>,
           MineBlock \/ \E e : Called(e)
    PROVE  SoFar' = SoFar
<1>1. Stream' = Stream /\ next' = next
  BY ScopeStays
<1>2. ASSUME NEW s \in Stream
      PROVE  AppliedIn(s)' = AppliedIn(s)
  <2>1. CASE MineBlock
    <3>1. events' = events
      BY <2>1 DEF MineBlock
    <3>2. \A d : InScope(s, d)' <=> InScope(s, d)
      BY ScopeStays
    <3>3. \A i \in 1 .. Len(events) :
              BlockNumber(i)' = BlockNumber(i)
              /\ (InScope(s, Event(i))' <=> InScope(s, Event(i)))
      BY <3>1, <3>2 DEF BlockNumber, Event, InScope
    <3>. QED
      BY <1>1, <3>1, <3>3 DEF AppliedIn, Through
  <2>2. CASE \E e : Called(e)
    <3>1. PICK e : Called(e)
      BY <2>2
    <3>. PICK n : n = Len(events)
      OBVIOUS
    <3>2. /\ n \in Nat /\ Len(events') = n + 1
          /\ \A i \in 1 .. n : Event(i)' = Event(i)
          /\ Event(n + 1)' = e
          /\ 1 .. Len(events') = (1 .. n) \cup {n + 1}
      BY <3>1, CallAppends DEF ContractInv
    <3>3. next[s] \in Nat /\ next[s] <= block /\ block \in Nat /\ e.block = block
      BY <3>1 DEF Placed, Called, ContractInv, ContractTypes
    <3>4. ~ (BlockNumber(n + 1)' <= next[s] - 1)
      <4>1. BlockNumber(n + 1)' = block
        BY <3>2, <3>3 DEF BlockNumber, Event, NotYet
      <4>. QED
        BY <3>3, <4>1
    <3>5. \A i \in 1 .. n : BlockNumber(i)' = BlockNumber(i)
      BY <3>2 DEF BlockNumber, Event
    <3>6. \A i \in 1 .. n : InScope(s, Event(i))' <=> InScope(s, Event(i))
      BY <3>2 DEF InScope
    <3>7. AppliedIn(s)' = {i \in (1 .. n) \cup {n + 1} :
              InScope(s, Event(i))' /\ BlockNumber(i)' <= next[s] - 1}
      BY <1>1, <3>2 DEF AppliedIn, Through
    <3>8. AppliedIn(s) = {i \in 1 .. n : InScope(s, Event(i)) /\ BlockNumber(i) <= next[s] - 1}
      BY DEF AppliedIn, Through
    <3>. QED
      BY <3>4, <3>5, <3>6, <3>7, <3>8
  <2>. QED
    BY <2>1, <2>2
<1>. QED
  BY <1>1, <1>2 DEF SoFar

\* A move of the contract keeps the invariant.
LEMMA ContractMoves ==
    ASSUME ProjectionInv, ContractStep
    PROVE  ProjectionInv'
<1>1. /\ view \in View /\ anchor = NotYet
      /\ UNCHANGED <<view, anchor, next, last, confirmed, kept>>
      /\ ContractInv /\ Placed
  BY DEF ProjectionInv, Placed, ContractStep, projectionVars
<1>2. MineBlock \/ \E e : Called(e)
  <2>1. CASE MineBlock
    BY <2>1
  <2>2. CASE Call(Input[view])
    <3>1. Callable(Input[view])
      BY <1>1, ProjectionAssumption
    <3>2. \E e : Called(e)
      <4>. DEFINE input == Input[view]
      <4>1. Callable(input) /\ Call(input) /\ ContractTypes
        BY <1>1, <2>2, <3>1 DEF ContractInv
      <4>. QED
        BY <4>1, EveryCall
    <3>. QED
      BY <3>2
  <2>. QED
    BY <2>1, <2>2 DEF ContractStep
<1>3. SoFar' = SoFar
  BY <1>1, <1>2, AppliedStays
<1>4. Stream' = Stream
  BY <1>1, ScopeStays
<1>5. ContractInv' /\ block \in Nat /\ block' \in Nat /\ block <= block'
  <2>1. CASE MineBlock
    <3>1. /\ events' = events /\ issued' = issued /\ block' = block + 1
          /\ block \in Nat \ {0}
      BY <1>1, <2>1 DEF MineBlock, ContractInv, ContractTypes
    <3>2. ContractTypes'
      BY <1>1, <3>1 DEF ContractInv, ContractTypes
    <3>3. \A i \in 1 .. Len(events) : Event(i)' = Event(i)
      BY <3>1 DEF Event
    <3>4. Ordered'
      <4>1. \A x \in 1 .. block : x \in 1 .. block'
        BY <3>1
      <4>. QED
        BY <1>1, <3>1, <3>3, <4>1 DEF ContractInv, Ordered
    <3>5. Genuine'
      BY <1>1, <3>1 DEF ContractInv, Genuine, Event, WellFormed
    <3>6. Numbered'
      <4>1. \A i : CommentsUpTo(i)' = CommentsUpTo(i)
        BY <3>1 DEF CommentsUpTo, Event
      <4>2. issued'["comment"] = Cardinality(CommentsUpTo(Len(events)))
        BY <1>1, <3>1 DEF ContractInv, Numbered
      <4>3. CommentsUpTo(Len(events))' = CommentsUpTo(Len(events))
        BY <3>1 DEF CommentsUpTo, Event
      <4>. QED
        BY <1>1, <3>1, <4>1, <4>3 DEF ContractInv, Numbered, Event
    <3>. QED
      BY <3>1, <3>2, <3>4, <3>5, <3>6 DEF ContractInv
  <2>2. CASE \E e : Called(e)
    <3>1. PICK e : Called(e)
      BY <2>2
    <3>2. ContractInv'
      BY <1>1, <3>1, CallKeeps
    <3>. QED
      BY <1>1, <3>1, <3>2 DEF Called, ContractInv, ContractTypes
  <2>. QED
    BY <1>2, <2>1, <2>2
<1>6. Placed'
  <2>1. anchor < block' /\ confirmed < block'
    BY <1>1, <1>5 DEF Placed
  <2>2. \A s \in Stream : next[s] <= block'
    BY <1>1, <1>5 DEF Placed
  <2>. QED
    BY <1>1, <1>4, <2>1, <2>2 DEF Placed
<1>7. LastApplied'
  <2>1. \A s \in Stream : AppliedIn(s)' = AppliedIn(s)
    BY <1>3, <1>4 DEF SoFar
  <2>2. last = [s \in Stream |-> LastIn(AppliedIn(s))]
    BY DEF ProjectionInv, LastApplied
  <2>. QED
    BY <1>1, <1>4, <2>1, <2>2 DEF LastApplied, LastIn
<1>8. DerivedSoFar'
  <2>. SUFFICES ASSUME NEW k, NEW A, k = kept', A = SoFar'
                PROVE  Derived(k, A)'
    BY DEF DerivedSoFar
  <2>1. Derived(k, A)
    BY <1>1, <1>3 DEF ProjectionInv, DerivedSoFar
  <2>2. Len(events) \in Nat
    BY <1>1, LenIsNat DEF ContractInv
  <2>3. A \in [Stream -> SUBSET (1 .. Len(events))]
    <3>1. \A s \in Stream : AppliedIn(s) \subseteq 1 .. Len(events)
      BY DEF AppliedIn, Through
    <3>. QED
      BY <1>3, <3>1 DEF SoFar
  <2>4. \A i \in 1 .. Len(events) : events'[i] = events[i]
    <3>1. CASE MineBlock
      BY <3>1 DEF MineBlock
    <3>2. CASE \E e : Called(e)
      BY <1>1, <3>2, CallAppends DEF ContractInv, Event
    <3>. QED
      BY <1>2, <3>1, <3>2
  <2>. QED
    BY <1>1, <2>1, <2>2, <2>3, <2>4, StillDerived
<1>9. LetThroughAnchor'
  BY <1>1 DEF LetThroughAnchor
<1>. QED
  BY <1>5, <1>6, <1>7, <1>8, <1>9 DEF ProjectionInv

-----------------------------------------------------------------------------
(* The projection moves.                                                    *)

\* The events stay as they are.
LEMMA EventsStay ==
    ASSUME ContractInv, view \in View, UNCHANGED <<contractVars, view>>
    PROVE  /\ ContractInv'
           /\ \A s, n : Through(s, n)' = Through(s, n)
           /\ Stream' = Stream
           /\ \A n : LetThrough(n) => LetThrough(n)'
           /\ \A k : \A A \in [Stream -> SUBSET (1 .. Len(events))] :
                 Derived(k, A) => Derived(k, A)'
<1>1. events' = events /\ issued' = issued /\ block' = block /\ view' = view
  BY DEF contractVars
<1>2. ContractInv'
  BY <1>1 DEF ContractInv, ContractTypes, Ordered, Genuine, Numbered, Event,
      WellFormed, CommentsUpTo
<1>3. Stream' = Stream /\ \A s, n : Through(s, n)' = Through(s, n)
  BY <1>1 DEF Stream, Through, InScope, Event, BlockNumber
<1>4. ASSUME NEW k, NEW A \in [Stream -> SUBSET (1 .. Len(events))], Derived(k, A)
      PROVE  Derived(k, A)'
  <2>1. Len(events) \in Nat
    BY LenIsNat DEF ContractInv
  <2>. QED
    BY <1>1, <1>4, <2>1, StillDerived
<1>5. \A n : LetThrough(n) => LetThrough(n)'
  BY <1>1, <1>3 DEF LetThrough, Event
<1>. QED
  BY <1>2, <1>3, <1>4, <1>5

\* A page taken, the streams are where they should be.
LEMMA PageApplied ==
    ASSUME ProjectionInv, NEW s \in Stream, applyLogs(s)
    PROVE  ProjectionInv'
<1>1. PICK to \in next[s] .. anchor :
         /\ Acceptable(s, Page(s, to))
         /\ kept' = AfterPage(s, Page(s, to))
         /\ last' = IF Page(s, to) = {} THEN last ELSE [last EXCEPT ![s] = Max(Page(s, to))]
         /\ next' = [next EXCEPT ![s] = to + 1]
         /\ confirmed' = IF view = "comments" /\ Page(s, to) # {} THEN NotYet ELSE confirmed
  BY DEF applyLogs
<1>2. /\ UNCHANGED <<contractVars, view, anchor>> /\ Scanning(s)
      /\ ContractInv /\ Placed /\ LastApplied /\ DerivedSoFar
      /\ ContractTypes /\ Ordered /\ Genuine
  BY DEF applyLogs, ProjectionInv, ContractInv
<1>. DEFINE page == Page(s, to)
<1>3. /\ anchor # NotYet /\ anchor \in Nat /\ anchor < block /\ block \in Nat
      /\ next[s] \in Nat \ {0} /\ next \in [Stream -> Nat \ {0}]
      /\ to \in Nat /\ next[s] <= to /\ to <= anchor /\ confirmed < next[s]
      /\ confirmed \in Nat /\ confirmed < anchor
  BY <1>1, <1>2 DEF Scanning, Placed, ContractTypes
<1>4. /\ page \subseteq 1 .. Len(events)
      /\ Through(s, to) = AppliedIn(s) \cup page
      /\ \A j \in AppliedIn(s), i \in page : j < i
      /\ AppliedIn(s) \subseteq 1 .. Len(events)
  BY <1>2, <1>3, PageIsNext
<1>5. /\ ContractInv' /\ Stream' = Stream
      /\ \A u, n : Through(u, n)' = Through(u, n)
      /\ \A k : \A A \in [Stream -> SUBSET (1 .. Len(events))] :
            Derived(k, A) => Derived(k, A)'
  BY <1>2, EventsStay DEF Placed
<1>. HIDE DEF page
<1>6. \A u \in Stream : AppliedIn(u)' = IF u = s THEN Through(s, to) ELSE AppliedIn(u)
  <2>1. \A u \in Stream : next'[u] = IF u = s THEN to + 1 ELSE next[u]
    BY <1>1, <1>3
  <2>2. to + 1 - 1 = to
    BY <1>3
  <2>3. \A u \in Stream : AppliedIn(u)' = Through(u, next'[u] - 1)
    BY <1>5 DEF AppliedIn
  <2>. QED
    BY <2>1, <2>2, <2>3 DEF AppliedIn
<1>7. SoFar' = [SoFar EXCEPT ![s] = Through(s, to)]
  BY <1>5, <1>6 DEF SoFar
<1>8. Placed'
  <2>1. next' \in [Stream -> Nat \ {0}]
    BY <1>1, <1>3
  <2>2. confirmed' \in Nat /\ confirmed' <= confirmed
    BY <1>1, <1>3 DEF NotYet
  <2>3. ASSUME NEW u \in Stream
        PROVE  next'[u] <= block /\ confirmed' < next'[u] /\ next'[u] <= anchor + 1
    <3>1. CASE u = s
      <4>1. next'[u] = to + 1
        BY <1>1, <1>3, <3>1
      <4>. QED
        BY <1>3, <2>2, <4>1
    <3>2. CASE u # s
      <4>1. next'[u] = next[u] /\ next[u] \in Nat
        BY <1>1, <1>3, <3>2
      <4>2. next[u] <= block /\ confirmed < next[u] /\ next[u] <= anchor + 1
        BY <1>2, <1>3 DEF Placed
      <4>. QED
        BY <1>3, <2>2, <4>1, <4>2
    <3>. QED
      BY <3>1, <3>2
  <2>4. block' = block /\ view' = view /\ anchor' = anchor /\ view \in View
    BY <1>2 DEF contractVars, Placed
  <2>. QED
    BY <1>3, <1>5, <2>1, <2>2, <2>3, <2>4 DEF Placed
<1>9. LastApplied'
  <2>1. last = [u \in Stream |-> LastIn(AppliedIn(u))]
    BY <1>2 DEF LastApplied
  <2>2. ASSUME page # {}
        PROVE  LastIn(Through(s, to)) = Max(page)
    <3>1. Len(events) \in Nat
      BY <1>2, LenIsNat
    <3>2. Max(page) \in page /\ \A i \in page : i <= Max(page)
      <4>1. page \in SUBSET (0 .. Len(events))
        BY <1>4, <3>1
      <4>. QED
        BY <2>2, <3>1, <4>1, MaxIsGreatest
    <3>. DEFINE m == Max(page)
                T == Through(s, to)
    <3>6. m \in page /\ \A i \in page : i <= m
      BY <3>2
    <3>7. T = AppliedIn(s) \cup page
      BY <1>4
    <3>3. T \in SUBSET Nat /\ m \in T /\ \A i \in T : i <= m
      <4>. HIDE DEF m, T
      <4>1. m \in Nat /\ page \subseteq Nat /\ AppliedIn(s) \subseteq Nat
        BY <1>4, <3>1, <3>6
      <4>2. \A i \in AppliedIn(s) : i < m
        BY <1>4, <3>6
      <4>3. \A i \in AppliedIn(s) : i <= m
        BY <4>1, <4>2
      <4>. QED
        BY <3>6, <3>7, <4>1, <4>3
    <3>4. LastIn(T) = IF T = {} THEN NotYet ELSE Max(T)
      BY DEF LastIn
    <3>. HIDE DEF m, T
    <3>5. Max(T) = m
      BY <3>3, MaxIs
    <3>. QED
      BY <3>3, <3>4, <3>5 DEF m, T
  <2>3. \A u \in Stream : LastIn(AppliedIn(u))' = LastIn(IF u = s THEN Through(s, to) ELSE AppliedIn(u))
    BY <1>6 DEF LastIn
  <2>4. page = {} => Through(s, to) = AppliedIn(s)
    BY <1>4
  <2>5. last' = [u \in Stream |-> LastIn(AppliedIn(u))']
    <3>1. CASE page = {}
      BY <1>1, <2>1, <2>3, <2>4, <3>1 DEF page
    <3>2. CASE page # {}
      <4>1. last' = [last EXCEPT ![s] = Max(page)]
        BY <1>1, <3>2 DEF page
      <4>. QED
        BY <2>1, <2>2, <2>3, <3>2, <4>1
    <3>. QED
      BY <3>1, <3>2
  <2>. QED
    BY <1>5, <2>5 DEF LastApplied
<1>10. DerivedSoFar'
  <2>. SUFFICES ASSUME NEW k, NEW A, k = kept', A = SoFar'
                PROVE  Derived(k, A)'
    BY DEF DerivedSoFar
  <2>1. Derived(k, A)
    <3>. PICK B : B = SoFar
      OBVIOUS
    <3>1. Derived(kept, B)
      <4>. PICK x : x = kept
        OBVIOUS
      <4>1. Derived(x, B)
        BY <1>2 DEF DerivedSoFar
      <4>. QED
        BY <4>1
    <3>2. B = [u \in Stream |-> AppliedIn(u)]
      BY DEF SoFar
    <3>3. B \in [Stream -> SUBSET (1 .. Len(events))]
      BY <1>2, <1>3, AppliedIs
    <3>4. Derived(AfterPage(s, Page(s, to)), [B EXCEPT ![s] = Through(s, to)])
      BY <1>2, <1>3, <3>1, <3>2, <3>3, PageFolded
    <3>5. k = AfterPage(s, Page(s, to)) /\ A = [B EXCEPT ![s] = Through(s, to)]
      BY <1>1, <1>7
    <3>. QED
      BY <3>4, <3>5
  <2>2. A \in [Stream -> SUBSET (1 .. Len(events))]
    <3>1. Through(s, to) \subseteq 1 .. Len(events)
      BY DEF Through
    <3>2. SoFar \in [Stream -> SUBSET (1 .. Len(events))]
      BY <1>2, <1>3, AppliedIs
    <3>. QED
      BY <1>7, <3>1, <3>2
  <2>. QED
    BY <1>5, <2>1, <2>2
<1>11. LetThroughAnchor'
  <2>1. LetThrough(anchor) => LetThrough(anchor)'
    BY <1>2, EventsStay DEF Placed
  <2>. QED
    BY <1>2, <1>3, <2>1 DEF ProjectionInv, LetThroughAnchor
<1>. QED
  BY <1>5, <1>8, <1>9, <1>10, <1>11 DEF ProjectionInv

\* What the streams have applied are events.
LEMMA SoFarIs ==
    ASSUME ContractInv, next \in [Stream -> Nat \ {0}]
    PROVE  SoFar \in [Stream -> SUBSET (1 .. Len(events))]
<1>1. PICK s \in Stream : TRUE
  BY DEF Stream
<1>. QED
  BY AppliedIs

\* Counted anew, the likes are as many as were counted one by one; blocks that
\* are forgotten are not needed.
LEMMA Recounted ==
    ASSUME Len(events) \in Nat, NEW k, NEW A, Derived(k, A), NEW h,
           view = "reactions", A \in [Stream -> SUBSET (1 .. Len(events))],
           h \subseteq k.hashes
    PROVE  Derived(FromSnapshot([k EXCEPT !.hashes = h]), A)
<1>. DEFINE L == A["likes"]
            R == A["reposts"]
            posts == {like[1] : like \in k.active}
            of(p) == {like \in k.active : like[1] = p}
            x == FromSnapshot([k EXCEPT !.hashes = h])
            counts == [p \in posts |-> Cardinality(of(p))]
<1>1. /\ IsKept(k) /\ ReactionsIn(k, L, R) /\ L \in SUBSET (1 .. Len(events))
      /\ ~ Relational
  BY DEF Derived, Stream, Relational
<1>2. x = [[k EXCEPT !.hashes = h] EXCEPT !.likes = counts]
  <2>1. [k EXCEPT !.hashes = h].active = k.active
    BY <1>1 DEF IsKept
  <2>. QED
    BY <2>1 DEF FromSnapshot
<1>. HIDE DEF x, counts
<1>3. /\ IsKept(x) /\ x.active = k.active /\ x.reposts = k.reposts
      /\ x.hashes = h /\ x.likes = counts
  BY <1>1, <1>2 DEF IsKept
<1>4. ASSUME NEW p \in Nat
      PROVE  CountOf(counts, p) = Cardinality(Likers(L, p))
  <2>. DEFINE who == Likers(L, p)
              f == [a \in who |-> <<p, a>>]
  <2>1. IsFiniteSet(who) /\ who \subseteq Account
    BY <1>1, LikersFinite DEF Likers
  <2>2. of(p) = {<<p, a>> : a \in who}
    <3>1. ASSUME NEW like \in of(p)  PROVE like \in {<<p, a>> : a \in who}
      <4>1. like \in Nat \X Account /\ like \in k.active /\ like[1] = p
        BY <1>1 DEF ReactionsIn
      <4>2. like = <<p, like[2]>> /\ like[2] \in Account
        BY <4>1
      <4>3. like[2] \in who
        BY <1>1, <4>1, <4>2 DEF ReactionsIn
      <4>. QED
        BY <4>2, <4>3
    <3>2. ASSUME NEW a \in who  PROVE <<p, a>> \in of(p)
      BY <1>1, <2>1 DEF ReactionsIn
    <3>. QED
      BY <3>1, <3>2
  <2>3. Cardinality(of(p)) = Cardinality(who)
    <3>1. f \in Bijection(who, of(p))
      <4>1. f \in [who -> of(p)]
        BY <2>2
      <4>2. \A a, b \in who : f[a] = f[b] => a = b
        OBVIOUS
      <4>3. \A like \in of(p) : \E a \in who : f[a] = like
        BY <2>2
      <4>. HIDE DEF f, who, of
      <4>. QED
        BY <4>1, <4>2, <4>3 DEF Bijection, Injection, Surjection, IsInjective
    <3>2. ExistsBijection(who, of(p))
      BY <3>1 DEF ExistsBijection
    <3>. HIDE DEF who, of
    <3>. QED
      BY <2>1, <3>2, FS_Bijection
  <2>4. CASE p \in posts
    BY <2>3, <2>4 DEF CountOf, counts
  <2>5. CASE p \notin posts
    <3>1. of(p) = {}
      BY <2>5
    <3>2. who = {}
      BY <2>2, <3>1
    <3>3. CountOf(counts, p) = 0
      BY <2>5 DEF CountOf, counts
    <3>. QED
      BY <3>2, <3>3, FS_EmptySet
  <2>. QED
    BY <2>4, <2>5
<1>5. ReactionsIn(x, L, R)
  BY <1>1, <1>3, <1>4 DEF ReactionsIn
<1>. QED
  BY <1>1, <1>3, <1>5 DEF Derived, x

\* Taken up again, a projection is what it was.
LEMMA SnapshotOpens ==
    ASSUME ProjectionInv, Open
    PROVE  ProjectionInv'
<1>1. /\ UNCHANGED <<contractVars, view, next, last, confirmed>>
      /\ anchor = NotYet /\ anchor' = block - 1 /\ confirmed < block - 1
      /\ kept' = kept \/ kept' = FromSnapshot(Snapshot)
      /\ LetThrough(block - 1)
      /\ ContractInv /\ Placed /\ LastApplied /\ DerivedSoFar
      /\ block' = block /\ block \in Nat
  BY DEF Open, ProjectionInv, contractVars, ContractInv, ContractTypes
<1>2. /\ ContractInv' /\ Stream' = Stream
      /\ \A u, n : Through(u, n)' = Through(u, n)
      /\ \A k : \A A \in [Stream -> SUBSET (1 .. Len(events))] :
            Derived(k, A) => Derived(k, A)'
  BY <1>1, EventsStay DEF Placed
<1>3. \A u \in Stream : AppliedIn(u)' = AppliedIn(u)
  BY <1>1, <1>2 DEF AppliedIn
<1>4. SoFar' = SoFar
  BY <1>2, <1>3 DEF SoFar
<1>5. Placed'
  <2>1. anchor' \in Nat /\ anchor' < block /\ anchor' # NotYet /\ confirmed < anchor'
    BY <1>1 DEF Placed, NotYet
  <2>2. ASSUME NEW s \in Stream
        PROVE  next[s] <= block /\ confirmed < next[s] /\ next[s] <= anchor' + 1
    <3>1. next[s] = confirmed + 1 /\ confirmed \in Nat
      BY <1>1 DEF Placed
    <3>. QED
      BY <1>1, <3>1
  <2>. QED
    BY <1>1, <1>2, <2>1, <2>2 DEF Placed
<1>6. LastApplied'
  BY <1>1, <1>2, <1>3 DEF LastApplied, LastIn
<1>7. DerivedSoFar'
  <2>. SUFFICES ASSUME NEW k, NEW A, k = kept', A = SoFar'
                PROVE  Derived(k, A)'
    BY DEF DerivedSoFar
  <2>1. Len(events) \in Nat
    BY <1>1, LenIsNat DEF ContractInv
  <2>2. A \in [Stream -> SUBSET (1 .. Len(events))]
    BY <1>1, <1>4, SoFarIs DEF Placed
  <2>. PICK x : x = kept
    OBVIOUS
  <2>3. Derived(x, A)
    BY <1>1, <1>4 DEF DerivedSoFar
  <2>4. Derived(k, A)
    <3>1. CASE kept' = kept
      BY <2>3, <3>1
    <3>2. CASE kept' = FromSnapshot(Snapshot) /\ view = "reactions"
      <4>. DEFINE h == {b \in x.hashes : b > FrontierStart}
      <4>1. k = FromSnapshot([x EXCEPT !.hashes = h])
        BY <3>2 DEF Snapshot
      <4>2. h \subseteq x.hashes
        OBVIOUS
      <4>. HIDE DEF h
      <4>3. Derived(FromSnapshot([x EXCEPT !.hashes = h]), A)
        BY <2>1, <2>2, <2>3, <3>2, <4>2, Recounted
      <4>. QED
        BY <4>1, <4>3
    <3>3. CASE kept' = FromSnapshot(Snapshot) /\ view # "reactions"
      <4>1. kept' = kept
        BY <3>3 DEF Snapshot, FromSnapshot
      <4>. QED
        BY <2>3, <4>1
    <3>. QED
      BY <1>1, <3>1, <3>2, <3>3
  <2>. QED
    BY <1>2, <2>2, <2>4
<1>8. LetThroughAnchor'
  <2>1. LetThrough(block - 1) => LetThrough(block - 1)'
    <3>. PICK n : n = block - 1
      OBVIOUS
    <3>1. LetThrough(n) => LetThrough(n)'
      BY <1>1, EventsStay DEF Placed
    <3>. QED
      BY <3>1, <1>1
  <2>. QED
    BY <1>1, <2>1 DEF LetThroughAnchor
<1>. QED
  BY <1>2, <1>5, <1>6, <1>7, <1>8 DEF ProjectionInv

\* A scan is confirmed when every stream is at the block after its anchor.
LEMMA ScanConfirms ==
    ASSUME ProjectionInv, confirmThrough
    PROVE  ProjectionInv'
<1>1. /\ UNCHANGED <<contractVars, view, next, last, kept>>
      /\ confirmed' = anchor /\ anchor' = NotYet /\ Scanned
      /\ ContractInv /\ Placed /\ LastApplied /\ DerivedSoFar
      /\ block' = block /\ block \in Nat
  BY DEF confirmThrough, ProjectionInv, contractVars, ContractInv, ContractTypes
<1>2. /\ ContractInv' /\ Stream' = Stream
      /\ \A u, n : Through(u, n)' = Through(u, n)
      /\ \A k : \A A \in [Stream -> SUBSET (1 .. Len(events))] :
            Derived(k, A) => Derived(k, A)'
  BY <1>1, EventsStay DEF Placed
<1>3. \A u \in Stream : AppliedIn(u)' = AppliedIn(u)
  BY <1>1, <1>2 DEF AppliedIn
<1>4. SoFar' = SoFar
  BY <1>2, <1>3 DEF SoFar
<1>5. Placed'
  <2>1. anchor \in Nat /\ anchor < block /\ anchor # NotYet
    BY <1>1 DEF Placed, Scanned
  <2>2. ASSUME NEW s \in Stream
        PROVE  next[s] <= block /\ next[s] = anchor + 1
    <3>1. next[s] <= anchor + 1 /\ next[s] > anchor /\ next[s] \in Nat
      BY <1>1, <2>1 DEF Placed, Scanned
    <3>. QED
      BY <1>1, <2>1, <3>1
  <2>3. anchor' = 0 /\ 0 < block
    BY <1>1, <2>1 DEF NotYet
  <2>. QED
    BY <1>1, <1>2, <2>1, <2>2, <2>3 DEF Placed, NotYet
<1>6. LastApplied'
  BY <1>1, <1>2, <1>3 DEF LastApplied, LastIn
<1>7. DerivedSoFar'
  <2>. SUFFICES ASSUME NEW k, NEW A, k = kept', A = SoFar'
                PROVE  Derived(k, A)'
    BY DEF DerivedSoFar
  <2>1. A \in [Stream -> SUBSET (1 .. Len(events))]
    BY <1>1, <1>4, SoFarIs DEF Placed
  <2>2. Derived(k, A)
    BY <1>1, <1>4 DEF DerivedSoFar
  <2>. QED
    BY <1>2, <2>1, <2>2
<1>8. LetThroughAnchor'
  BY <1>1 DEF LetThroughAnchor, NotYet
<1>. QED
  BY <1>2, <1>5, <1>6, <1>7, <1>8 DEF ProjectionInv

\* Nothing is derived of no events.
LEMMA NothingDerived ==
    ASSUME view \in View, NEW A, A = [s \in Stream |-> {}]
    PROVE  Derived(Nothing, A)
<1>1. IsKept(Nothing)
  BY DEF IsKept, Nothing
<1>2. ASSUME Relational  PROVE RelationsIn(Nothing, A["events"])
  <2>1. A["events"] = {}
    BY <1>2 DEF Stream, Relational
  <2>2. \A a : LatestIn({}, a) = NotYet
    BY DEF LatestIn, LastIn, About
  <2>3. OnIn({}) = {}
    BY <2>2 DEF OnIn
  <2>4. RelationsOf(Nothing, {}, [a \in Account |-> LatestIn({}, a)])
    BY DEF RelationsOf, Nothing
  <2>. QED
    BY <2>1, <2>3, <2>4 DEF RelationsIn
<1>3. ASSUME view = "profiles"  PROVE ProfilesIn(Nothing, A["events"])
  <2>1. A["events"] = {}
    BY <1>3 DEF Stream
  <2>2. \A a : LastIn(ByAccount({}, a)) = NotYet
    BY DEF LastIn, ByAccount
  <2>3. {b \in TrackedAccounts : LastIn(ByAccount({}, b)) # NotYet} = {}
    BY <2>2
  <2>4. Nothing.entries = <<>>
    BY DEF Nothing
  <2>5. <<>> = [a \in {} |-> LastIn(ByAccount({}, a))]
    OBVIOUS
  <2>. QED
    BY <2>1, <2>3, <2>4, <2>5 DEF ProfilesIn
<1>4. ASSUME view = "comments"  PROVE CommentsIn(Nothing, A["events"])
  <2>1. A["events"] = {}
    BY <1>4 DEF Stream
  <2>2. Nothing.count = Cardinality({}) /\ DOMAIN Nothing.entries = {}
    BY FS_EmptySet DEF Nothing
  <2>3. ASSUME NEW post  PROVE Listed(Got(Nothing, post), CommentsOn({}, post))
    <3>1. Got(Nothing, post) = <<>> /\ CommentsOn({}, post) = {}
      BY <2>2 DEF Got, CommentsOn
    <3>. QED
      BY <3>1 DEF Listed
  <2>. QED
    BY <2>1, <2>2, <2>3 DEF CommentsIn
<1>5. ASSUME view = "reactions"  PROVE ReactionsIn(Nothing, A["likes"], A["reposts"])
  <2>1. A["likes"] = {} /\ A["reposts"] = {}
    BY <1>5 DEF Stream
  <2>2. \A p, a : LastIn(LikesBy({}, p, a)) = NotYet
    BY DEF LastIn, LikesBy
  <2>3. \A p : Likers({}, p) = {} /\ RepostsOf({}, p) = {}
    BY <2>2 DEF Likers, RepostsOf
  <2>4. /\ Nothing.active = {} /\ Nothing.hashes = {}
        /\ Nothing.likes = <<>> /\ Nothing.reposts = <<>>
    BY DEF Nothing
  <2>5. DOMAIN <<>> = {} /\ \A p : CountOf(<<>>, p) = 0
    BY DEF CountOf
  <2>. QED
    BY <2>1, <2>3, <2>4, <2>5, FS_EmptySet DEF ReactionsIn
<1>. QED
  BY <1>1, <1>2, <1>3, <1>4, <1>5 DEF Derived

Untouched ==
    /\ ContractInv
    /\ view \in View
    /\ anchor = NotYet /\ confirmed = NotYet
    /\ next = [s \in Stream |-> 1] /\ last = [s \in Stream |-> NotYet]
    /\ kept = Nothing

\* A projection that has applied nothing is as it should be.
LEMMA NothingApplied == Untouched => ProjectionInv
<1>. SUFFICES ASSUME Untouched  PROVE ProjectionInv
  OBVIOUS
<1>. USE DEF Untouched
<1>1. next \in [Stream -> Nat \ {0}] /\ \A s \in Stream : next[s] = 1
  OBVIOUS
<1>2. \A s \in Stream : AppliedIn(s) = {}
  <2>. SUFFICES ASSUME NEW s \in Stream  PROVE AppliedIn(s) = {}
    OBVIOUS
  <2>1. /\ AppliedIn(s) = {i \in 1 .. Len(events) :
                               InScope(s, Event(i)) /\ Event(i).block < next[s]}
        /\ \A i \in 1 .. Len(events) : Event(i).block \in Nat \ {0}
    BY <1>1, AppliedIs
  <2>2. \A i \in 1 .. Len(events) : ~ (Event(i).block < 1)
    BY <2>1
  <2>. QED
    BY <1>1, <2>1, <2>2
<1>3. SoFar = [s \in Stream |-> {}]
  BY <1>2 DEF SoFar
<1>4. Placed
  <2>1. block \in Nat \ {0}
    BY DEF ContractInv, ContractTypes
  <2>. QED
    BY <1>1, <2>1 DEF Placed, NotYet
<1>5. LastApplied
  BY <1>2 DEF LastApplied, LastIn
<1>6. DerivedSoFar
  <2>. SUFFICES ASSUME NEW k, NEW A, k = kept, A = SoFar
                PROVE  Derived(k, A)
    BY DEF DerivedSoFar
  <2>1. Derived(Nothing, A)
    BY <1>3, NothingDerived
  <2>. QED
    BY <2>1
<1>7. LetThroughAnchor
  BY DEF LetThroughAnchor
<1>. QED
  BY <1>4, <1>5, <1>6, <1>7 DEF ProjectionInv

\* The invariant holds at first.
LEMMA ProjectionStarts ==
    ASSUME Init
    PROVE  ProjectionInv
<1>1. /\ events = <<>> /\ issued = [f \in Family |-> 0] /\ block = 1
  BY DEF Init, ContractInit
<1>2. Len(events) = 0 /\ 1 .. Len(events) = {}
  BY <1>1
<1>3. ContractTypes
  BY <1>1 DEF ContractTypes
<1>4. Ordered /\ Genuine
  BY <1>2 DEF Ordered, Genuine
<1>5. Numbered
  <2>1. CommentsUpTo(Len(events)) = {}
    BY <1>2 DEF CommentsUpTo
  <2>2. Cardinality({}) = 0
    BY FS_EmptySet
  <2>. QED
    BY <1>1, <2>1, <2>2 DEF Numbered, Family
<1>. QED
  BY <1>3, <1>4, <1>5, NothingApplied DEF Init, ContractInv, Untouched

\* A projection that is reset starts from nothing.
LEMMA ResetStarts ==
    ASSUME ProjectionInv, Reset
    PROVE  ProjectionInv'
<1>1. /\ UNCHANGED <<contractVars, view>> /\ ContractInv /\ view \in View
      /\ anchor' = NotYet /\ confirmed' = NotYet /\ kept' = Nothing
      /\ next' = [s \in Stream |-> 1] /\ last' = [s \in Stream |-> NotYet]
  BY DEF Reset, ProjectionInv, Placed
<1>2. ContractInv' /\ Stream' = Stream
  BY <1>1, EventsStay
<1>3. Untouched'
  BY <1>1, <1>2 DEF Untouched, NotYet, Nothing
<1>. QED
  BY <1>3, NothingApplied, PTL

\* The invariant is one.
THEOREM ProjectionInvariance == Spec => []ProjectionInv
<1>1. Init => ProjectionInv
  BY ProjectionStarts
<1>2. ProjectionInv /\ [Next]_vars => ProjectionInv'
  <2>. SUFFICES ASSUME ProjectionInv, [Next]_vars
                PROVE  ProjectionInv'
    OBVIOUS
  <2>1. CASE ContractStep
    BY <2>1, ContractMoves
  <2>2. CASE Open
    BY <2>2, SnapshotOpens
  <2>3. CASE \E s \in Stream : applyLogs(s)
    BY <2>3, PageApplied
  <2>4. CASE confirmThrough
    BY <2>4, ScanConfirms
  <2>5. CASE Reset
    BY <2>5, ResetStarts
  <2>6. CASE UNCHANGED vars
    <3>1. UNCHANGED <<contractVars, view, anchor, next, last, confirmed, kept>>
      BY <2>6 DEF vars, projectionVars
    <3>2. ContractInv /\ Placed /\ LastApplied /\ DerivedSoFar /\ LetThroughAnchor
      BY DEF ProjectionInv
    <3>3. /\ ContractInv' /\ Stream' = Stream
          /\ \A u, n : Through(u, n)' = Through(u, n)
          /\ \A k : \A A \in [Stream -> SUBSET (1 .. Len(events))] :
                Derived(k, A) => Derived(k, A)'
      BY <3>1, <3>2, EventsStay DEF Placed
    <3>4. \A u \in Stream : AppliedIn(u)' = AppliedIn(u)
      BY <3>1, <3>3 DEF AppliedIn
    <3>5. SoFar' = SoFar
      BY <3>3, <3>4 DEF SoFar
    <3>6. Placed'
      BY <3>1, <3>2, <3>3 DEF Placed, contractVars
    <3>7. LastApplied'
      BY <3>1, <3>2, <3>3, <3>4 DEF LastApplied, LastIn
    <3>8. DerivedSoFar'
      <4>. SUFFICES ASSUME NEW k, NEW A, k = kept', A = SoFar'
                    PROVE  Derived(k, A)'
        BY DEF DerivedSoFar
      <4>1. A \in [Stream -> SUBSET (1 .. Len(events))]
        BY <3>2, <3>5, SoFarIs DEF Placed
      <4>2. Derived(k, A)
        BY <3>1, <3>2, <3>5 DEF DerivedSoFar
      <4>. QED
        BY <3>3, <4>1, <4>2
    <3>9. LetThroughAnchor'
      <4>1. LetThrough(anchor) => LetThrough(anchor)'
        BY <3>1, <3>2, EventsStay DEF Placed
      <4>. QED
        BY <3>1, <3>2, <4>1 DEF LetThroughAnchor
    <3>. QED
      BY <3>3, <3>6, <3>7, <3>8, <3>9 DEF ProjectionInv
  <2>. QED
    BY <2>1, <2>2, <2>3, <2>4, <2>5, <2>6 DEF Next
<1>. QED
  BY <1>1, <1>2, PTL DEF Spec

-----------------------------------------------------------------------------
(* What follows.                                                            *)

\* Whatever is called, an event the client does not decode has a text that the
\* client has to read and cannot.
THEOREM WellEncodedDecode == Spec => []WellEncodedEventsDecode
<1>1. ProjectionInv => WellEncodedEventsDecode
  BY DEF ProjectionInv, ContractInv, Genuine, Readable,
     WellEncodedEventsDecode, Event
<1>. QED
  BY <1>1, ProjectionInvariance, PTL

\* The derived state is of what was applied.
LEMMA DerivedNow ==
    ASSUME ProjectionInv
    PROVE  /\ Derived(kept, SoFar)
           /\ \A s \in Stream : SoFar[s] = AppliedIn(s)
           /\ \A s \in Stream : AppliedIn(s) \in SUBSET (1 .. Len(events))
           /\ Len(events) \in Nat
<1>1. Derived(kept, SoFar)
  BY DEF ProjectionInv, DerivedSoFar
<1>2. \A s \in Stream : SoFar[s] = AppliedIn(s)
  BY DEF SoFar
<1>3. \A s \in Stream : AppliedIn(s) \in SUBSET (1 .. Len(events))
  BY DEF AppliedIn, Through
<1>4. Len(events) \in Nat
  BY LenIsNat DEF ProjectionInv, ContractInv
<1>. QED
  BY <1>1, <1>2, <1>3, <1>4

\* Relations.
LEMMA RelationsAreCurrent ==
    ASSUME ProjectionInv, Relational
    PROVE  RelationsCurrent
<1>. DEFINE A == AppliedIn("events")
            latest(a) == LatestOf("events", LAMBDA d : Counterpart(d) = a)
            on == {a \in Account : latest(a) # NotYet /\ Event(latest(a)).on}
            f == [a \in Account |-> LatestIn(A, a)]
<1>1. RelationsOf(kept, OnIn(A), f)
  <2>1. "events" \in Stream
    BY DEF Stream, Relational
  <2>2. SoFar["events"] = A
    BY <2>1, DerivedNow
  <2>. QED
    BY <2>2, DerivedNow DEF Derived, RelationsIn
<1>2. \A a : latest(a) = LatestIn(A, a)
  BY DEF LatestOf, LatestIn, LastIn, About, AppliedIn
<1>3. on = OnIn(A)
  <2>. HIDE DEF latest, A
  <2>. QED
    BY <1>2 DEF OnIn
<1>4. \A a \in on : f[a] = latest(a)
  <2>. HIDE DEF latest, A
  <2>. QED
    BY <1>2
<1>. HIDE DEF on, f, latest, A
<1>5. kept.entries = [a \in on |-> latest(a)]
  BY <1>1, <1>3, <1>4 DEF RelationsOf
<1>6. kept.index = UNION {Prefixes(a) : a \in on}
  BY <1>1, <1>3 DEF RelationsOf
<1>7. kept.blocks = [b \in {BlockNumber(latest(a)) : a \in on} |->
                         Cardinality({a \in on : BlockNumber(latest(a)) = b})]
  <2>1. {BlockNumber(f[a]) : a \in on} = {BlockNumber(latest(a)) : a \in on}
    BY <1>4
  <2>2. \A b : Sharing(on, f, b) = {a \in on : BlockNumber(latest(a)) = b}
    BY <1>4 DEF Sharing
  <2>. QED
    BY <1>1, <1>3, <2>1, <2>2 DEF RelationsOf
<1>. QED
  BY <1>5, <1>6, <1>7 DEF RelationsCurrent, on, latest

\* Profiles.
LEMMA ProfilesAreCurrent ==
    ASSUME ProjectionInv, view = "profiles"
    PROVE  ProfilesCurrent
<1>. DEFINE A == AppliedIn("events")
            latest(a) == LatestOf("events", LAMBDA d : d.account = a)
<1>1. ProfilesIn(kept, A)
  <2>1. SoFar["events"] = A
    BY DerivedNow DEF Stream
  <2>. QED
    BY <2>1, DerivedNow DEF Derived
<1>2. \A a : latest(a) = LastIn(ByAccount(A, a))
  BY DEF LatestOf, LastIn, ByAccount, AppliedIn
<1>. HIDE DEF latest, A
<1>3. kept.entries = [a \in {b \in TrackedAccounts : latest(b) # NotYet} |-> latest(a)]
  BY <1>1, <1>2 DEF ProfilesIn
<1>. QED
  BY <1>3 DEF ProfilesCurrent, latest

\* Comments.
LEMMA CommentsAreCurrent ==
    ASSUME ProjectionInv, view = "comments"
    PROVE  CommentsCurrent
<1>1. CommentsIn(kept, AppliedIn("events"))
  <2>1. SoFar["events"] = AppliedIn("events")
    BY DerivedNow DEF Stream
  <2>. QED
    BY <2>1, DerivedNow DEF Derived
<1>. QED
  BY <1>1 DEF CommentsIn, CommentsCurrent, Listed, Got, CommentsOn, AppliedIn

\* Reactions.
LEMMA ReactionsAreCurrent ==
    ASSUME ProjectionInv, view = "reactions"
    PROVE  ReactionsCurrent
<1>. DEFINE L == AppliedIn("likes")
            R == AppliedIn("reposts")
<1>1. ReactionsIn(kept, L, R)
  <2>1. SoFar["likes"] = L /\ SoFar["reposts"] = R
    BY DerivedNow DEF Stream
  <2>. QED
    BY <2>1, DerivedNow DEF Derived
<1>. SUFFICES ASSUME NEW post \in 1 .. issued["post"]
              PROVE  LET likes(a) == LatestOf("likes",
                             LAMBDA d : d.post = post /\ d.account = a)
                         on == {a \in Account : likes(a) # NotYet /\ Event(likes(a)).on}
                     IN  /\ {like[2] : like \in {l \in kept.active : l[1] = post}} = on
                         /\ CountOf(kept.likes, post) = Cardinality(on)
                         /\ CountOf(kept.reposts, post) =
                               Cardinality({i \in Through("reposts", next["reposts"] - 1) :
                                                Event(i).post = post})
  BY DEF ReactionsCurrent
<1>. DEFINE likes(a) == LatestOf("likes", LAMBDA d : d.post = post /\ d.account = a)
            on == {a \in Account : likes(a) # NotYet /\ Event(likes(a)).on}
<1>2. post \in Nat
  BY DEF ProjectionInv, ContractInv, ContractTypes, Family
<1>3. \A a : likes(a) = LastIn(LikesBy(L, post, a))
  BY DEF LatestOf, LastIn, LikesBy, AppliedIn
<1>4. on = Likers(L, post)
  <2>. HIDE DEF likes, L
  <2>. QED
    BY <1>3 DEF Likers
<1>5. RepostsOf(R, post) = {i \in Through("reposts", next["reposts"] - 1) : Event(i).post = post}
  BY DEF RepostsOf, AppliedIn
<1>6. {like[2] : like \in {l \in kept.active : l[1] = post}} = Likers(L, post)
  <2>. HIDE DEF L, R
  <2>1. ASSUME NEW like \in kept.active, like[1] = post  PROVE like[2] \in Likers(L, post)
    <3>1. like \in Nat \X Account
      BY <1>1 DEF ReactionsIn
    <3>2. like = <<post, like[2]>> /\ like[2] \in Account
      BY <2>1, <3>1
    <3>. QED
      BY <1>1, <1>2, <3>2 DEF ReactionsIn
  <2>2. ASSUME NEW a \in Likers(L, post)
        PROVE  \E like \in kept.active : like[1] = post /\ like[2] = a
    <3>1. a \in Account
      BY DEF Likers
    <3>2. <<post, a>> \in kept.active
      BY <1>1, <1>2, <3>1 DEF ReactionsIn
    <3>. QED
      BY <3>2
  <2>. QED
    BY <2>1, <2>2
<1>7. CountOf(kept.likes, post) = Cardinality(Likers(L, post))
      /\ CountOf(kept.reposts, post) = Cardinality(RepostsOf(R, post))
  BY <1>1, <1>2 DEF ReactionsIn
<1>. HIDE DEF on, L, R
<1>8. /\ {like[2] : like \in {l \in kept.active : l[1] = post}} = on
      /\ CountOf(kept.likes, post) = Cardinality(on)
      /\ CountOf(kept.reposts, post) =
            Cardinality({i \in Through("reposts", next["reposts"] - 1) :
                             Event(i).post = post})
  BY <1>4, <1>5, <1>6, <1>7
<1>. QED
  BY <1>8 DEF on

\* At every page boundary what was folded page by page is what the events up
\* to there say at once.
THEOREM ProjectionCurrent == Spec => []ProjectionIsCurrent
<1>1. ASSUME ProjectionInv  PROVE ProjectionIsCurrent
  <2>1. view \in View
    BY <1>1 DEF ProjectionInv, Placed
  <2>2. CASE Relational
    BY <1>1, <2>2, RelationsAreCurrent DEF ProjectionIsCurrent, Relational
  <2>3. CASE view = "profiles"
    BY <1>1, <2>3, ProfilesAreCurrent DEF ProjectionIsCurrent, Relational
  <2>4. CASE view = "comments"
    BY <1>1, <2>4, CommentsAreCurrent DEF ProjectionIsCurrent, Relational
  <2>5. CASE view = "reactions"
    BY <1>1, <2>5, ReactionsAreCurrent DEF ProjectionIsCurrent, Relational
  <2>6. CASE ~ Relational /\ view \notin {"profiles", "comments", "reactions"}
    BY <2>6 DEF ProjectionIsCurrent
  <2>. QED
    BY <2>2, <2>3, <2>4, <2>5, <2>6
<1>. QED
  BY <1>1, ProjectionInvariance, PTL

\* The last event a stream has applied is before its next page.
LEMMA LastIsBefore ==
    ASSUME ProjectionInv, NEW s \in Stream
    PROVE  /\ next[s] \in Nat \ {0} /\ confirmed \in Nat /\ confirmed < next[s]
           /\ last[s] = LastIn(AppliedIn(s))
           /\ BlockNumber(last[s]) \in Nat /\ BlockNumber(last[s]) < next[s]
           /\ Boundary(s) \in Nat /\ Boundary(s) < next[s]
           /\ confirmed <= Boundary(s)
<1>1. next[s] \in Nat \ {0} /\ confirmed \in Nat /\ confirmed < next[s]
  BY DEF ProjectionInv, Placed
<1>2. last[s] = LastIn(AppliedIn(s))
  BY DEF ProjectionInv, LastApplied
<1>3. BlockNumber(last[s]) \in Nat /\ BlockNumber(last[s]) < next[s]
  <2>1. CASE last[s] = NotYet
    BY <1>1, <2>1 DEF BlockNumber
  <2>2. CASE last[s] # NotYet
    <3>1. AppliedIn(s) \in SUBSET (1 .. Len(events)) /\ Len(events) \in Nat
      BY DerivedNow
    <3>2. LastIn(AppliedIn(s)) \in AppliedIn(s) \cup {NotYet}
      BY <3>1, LastIsLast
    <3>3. last[s] \in AppliedIn(s) /\ last[s] \in 1 .. Len(events)
      BY <1>2, <2>2, <3>1, <3>2
    <3>4. /\ AppliedIn(s) = {i \in 1 .. Len(events) :
                                 InScope(s, Event(i)) /\ Event(i).block < next[s]}
          /\ \A i \in 1 .. Len(events) :
                BlockNumber(i) = Event(i).block /\ Event(i).block \in Nat \ {0}
      BY AppliedIs DEF ProjectionInv, Placed
    <3>. QED
      BY <3>3, <3>4
  <2>. QED
    BY <2>1, <2>2
<1>. QED
  BY <1>1, <1>2, <1>3 DEF Boundary

\* The comments up to one that a page has are those applied and the page's.
LEMMA CommentsCount ==
    ASSUME ProjectionInv, view = "comments", NEW to \in Nat,
           next["events"] <= to,
           NEW i \in Page("events", to)
    PROVE  Event(i).id = kept.count + Cardinality({j \in Page("events", to) : j <= i})
<1>. DEFINE page == Page("events", to)
            A == AppliedIn("events")
            D == {j \in page : j <= i}
            C == CommentsUpTo(i)
<1>1. "events" \in Stream /\ Stream = {"events"}
  BY DEF Stream
<1>2. /\ page \subseteq 1 .. Len(events)
      /\ Through("events", to) = A \cup page
      /\ \A j \in A, m \in page : j < m
      /\ \A m \in page : InScope("events", Event(m)) /\ Event(m).block >= next["events"]
      /\ A \subseteq 1 .. Len(events)
      /\ \A j \in A : Event(j).block < next["events"]
  BY <1>1, PageIsNext DEF ProjectionInv, ContractInv, Placed
<1>3. Len(events) \in Nat /\ kept.count = Cardinality(A)
  <2>1. SoFar["events"] = A
    BY <1>1, DerivedNow
  <2>. QED
    BY <2>1, DerivedNow DEF Derived, CommentsIn
<1>4. i \in page /\ i \in 1 .. Len(events) /\ Event(i).event = "CommentPublished"
  BY <1>2 DEF InScope
<1>5. Event(i).id = Cardinality(C)
  BY <1>3, <1>4 DEF ProjectionInv, ContractInv, Numbered, CommentsUpTo
<1>6. C = A \cup D
  <2>1. ASSUME NEW j \in C  PROVE j \in A \cup D
    <3>1. j \in 1 .. i /\ j \in 1 .. Len(events) /\ Event(j).event = "CommentPublished"
      BY <1>3, <1>4 DEF CommentsUpTo
    <3>2. Event(j).block <= Event(i).block
      <4>1. j = i \/ j < i
        BY <1>3, <1>4, <3>1
      <4>2. Event(i).block \in Nat
        BY <1>4 DEF ProjectionInv, ContractInv, ContractTypes, Ordered
      <4>. QED
        BY <1>4, <3>1, <4>1, <4>2 DEF ProjectionInv, ContractInv, Ordered
    <3>3. BlockNumber(i) <= to /\ BlockNumber(i) = Event(i).block
      <4>1. i \in Through("events", to)
        BY <1>2, <1>4
      <4>. QED
        BY <1>3, <1>4, <4>1 DEF Through, BlockNumber, Event, NotYet
    <3>4. /\ BlockNumber(j) = Event(j).block /\ Event(j).block \in Nat
          /\ Event(i).block \in Nat
      BY <1>1, <1>4, <3>1, AppliedIs DEF ProjectionInv, Placed
    <3>5. j \in Through("events", to)
      BY <3>1, <3>2, <3>3, <3>4 DEF Through, InScope
    <3>6. j <= i
      BY <1>3, <1>4, <3>1
    <3>. QED
      BY <1>2, <3>5, <3>6
  <2>2. ASSUME NEW j \in A \cup D  PROVE j \in C
    <3>1. j \in 1 .. Len(events) /\ j <= i
      BY <1>2, <1>3, <1>4
    <3>2. j \in Through("events", to)
      BY <1>2
    <3>3. Event(j).event = "CommentPublished"
      BY <3>2 DEF Through, InScope
    <3>. QED
      BY <1>3, <1>4, <3>1, <3>3 DEF CommentsUpTo
  <2>. QED
    BY <2>1, <2>2
<1>7. IsFiniteSet(A) /\ IsFiniteSet(D) /\ A \cap D = {}
  <2>1. IsFiniteSet(1 .. Len(events)) /\ D \subseteq 1 .. Len(events)
    BY <1>2, <1>3, FS_Interval
  <2>2. A \cap D = {}
    <3>1. \A j \in A : j \in Nat /\ j < i
      BY <1>2, <1>4
    <3>2. \A j \in A : j \notin page
      BY <1>2, <1>3
    <3>. QED
      BY <3>2
  <2>. HIDE DEF D, A
  <2>. QED
    BY <1>2, <2>1, <2>2, FS_Subset
<1>8. Cardinality(A \cup D) = Cardinality(A) + Cardinality(D)
  <2>. HIDE DEF A, D
  <2>1. Cardinality(A \cup D) = Cardinality(A) + Cardinality(D) - Cardinality(A \cap D)
    BY <1>7, FS_Union
  <2>2. Cardinality(A) \in Nat /\ Cardinality(D) \in Nat
    BY <1>7, FS_CardinalityType
  <2>3. Cardinality(A \cap D) = 0
    BY <1>7, FS_EmptySet
  <2>. QED
    BY <2>1, <2>2, <2>3
<1>. QED
  BY <1>3, <1>5, <1>6, <1>8

\* No page is refused.
LEMMA PagesAccepted ==
    ASSUME ProjectionInv, NEW s \in Stream, Scanning(s),
           NEW to \in next[s] .. anchor
    PROVE  Acceptable(s, Page(s, to))
<1>1. /\ next[s] \in Nat \ {0} /\ Boundary(s) \in Nat /\ Boundary(s) < next[s]
      /\ to \in Nat /\ next[s] <= to
  BY LastIsBefore DEF ProjectionInv, Placed
<1>2. /\ Page(s, to) \subseteq 1 .. Len(events)
      /\ \A i \in Page(s, to) : InScope(s, Event(i)) /\ Event(i).block >= next[s]
  BY <1>1, PageIsNext DEF ProjectionInv, ContractInv, Placed
<1>3. ASSUME NEW i \in Page(s, to)
      PROVE  BlockNumber(i) > Boundary(s) /\ Decodes(Event(i))
  <2>1. BlockNumber(i) = Event(i).block /\ Event(i).block \in Nat
    BY <1>2, AppliedIs DEF ProjectionInv, Placed
  <2>2. Event(i).block >= next[s]
    BY <1>2
  <2>3. Decodes(Event(i))
    <3>1. i \in Through(s, to) /\ BlockNumber(i) <= to
      BY DEF Page, Through
    <3>2. anchor \in Nat /\ anchor # NotYet /\ to <= anchor
      BY DEF Scanning, ProjectionInv, Placed
    <3>3. i \in Through(s, anchor)
      BY <1>1, <2>1, <3>1, <3>2 DEF Through
    <3>. QED
      BY <3>2, <3>3 DEF ProjectionInv, LetThroughAnchor, LetThrough
  <2>. QED
    BY <1>1, <2>1, <2>2, <2>3
<1>4. ASSUME view = "comments", NEW i \in Page(s, to)
      PROVE  Event(i).id = kept.count + Cardinality({j \in Page(s, to) : j <= i})
  <2>1. s = "events"
    BY <1>4 DEF Stream
  <2>. QED
    BY <1>1, <1>4, <2>1, CommentsCount
<1>. QED
  BY <1>3, <1>4 DEF Acceptable

\* No confirmation is refused.
LEMMA ConfirmationsAccepted ==
    ASSUME ProjectionInv, Scanned
    PROVE  Confirmable(anchor)
<1>1. anchor # NotYet /\ anchor \in Nat /\ confirmed \in Nat /\ confirmed < anchor
  <2>1. PICK s \in Stream : TRUE
    BY DEF Stream
  <2>. QED
    BY <2>1 DEF Scanned, ProjectionInv, Placed
<1>2. ASSUME NEW s \in Stream  PROVE BlockNumber(last[s]) <= anchor
  <2>1. next[s] <= anchor + 1
    BY <1>1 DEF ProjectionInv, Placed
  <2>2. next[s] \in Nat /\ BlockNumber(last[s]) \in Nat /\ BlockNumber(last[s]) < next[s]
    BY LastIsBefore
  <2>. QED
    BY <1>1, <2>1, <2>2
<1>. QED
  BY <1>1, <1>2 DEF Confirmable

\* No snapshot of profiles is refused.
LEMMA ProfileSnapshots ==
    ASSUME ProjectionInv, view = "profiles"
    PROVE  ProfileSnapshotAccepted(kept)
<1>. DEFINE A == AppliedIn("events")
<1>1. /\ ProfilesIn(kept, A) /\ A \in SUBSET (1 .. Len(events)) /\ Len(events) \in Nat
      /\ last["events"] = LastIn(A)
  <2>1. SoFar["events"] = A /\ "events" \in Stream
    BY DerivedNow DEF Stream
  <2>. QED
    BY <2>1, DerivedNow, LastIsBefore DEF Derived
<1>. HIDE DEF A
<1>2. ASSUME NEW a \in DOMAIN kept.entries
      PROVE  a \in TrackedAccounts /\ kept.entries[a] <= last["events"]
  <2>1. /\ a \in TrackedAccounts /\ LastIn(ByAccount(A, a)) # NotYet
        /\ kept.entries[a] = LastIn(ByAccount(A, a))
    BY <1>1 DEF ProfilesIn
  <2>2. ByAccount(A, a) \in SUBSET (1 .. Len(events)) /\ ByAccount(A, a) \subseteq A
    BY <1>1 DEF ByAccount
  <2>3. LastIn(ByAccount(A, a)) \in ByAccount(A, a) \cup {NotYet}
    BY <1>1, <2>2, LastIsLast
  <2>4. LastIn(ByAccount(A, a)) \in A
    BY <2>1, <2>2, <2>3
  <2>5. \A j \in A : j <= LastIn(A)
    BY <1>1, LastIsLast
  <2>. QED
    BY <1>1, <2>1, <2>4, <2>5
<1>. QED
  BY <1>2 DEF ProfileSnapshotAccepted

\* The number of a comment among those before it.
LEMMA CommentsNumbered ==
    ASSUME ProjectionInv, view = "comments", NEW i \in AppliedIn("events")
    PROVE  /\ Event(i).id \in Nat /\ Event(i).id <= Cardinality(AppliedIn("events"))
           /\ Event(i).id = Cardinality(AppliedIn("events"))
                 <=> i = LastIn(AppliedIn("events"))
<1>. DEFINE A == AppliedIn("events")
            C == CommentsUpTo(i)
            m == LastIn(A)
<1>1. /\ A \in SUBSET (1 .. Len(events)) /\ Len(events) \in Nat
      /\ A = {j \in 1 .. Len(events) :
                 Event(j).event = "CommentPublished" /\ Event(j).block < next["events"]}
      /\ next["events"] \in Nat
      /\ \A j \in 1 .. Len(events) : Event(j).block \in Nat
  <2>1. "events" \in Stream
    BY DEF Stream
  <2>. QED
    BY <2>1, AppliedIs DEF ProjectionInv, Placed, InScope
<1>2. Event(i).id = Cardinality(C)
  BY <1>1 DEF ProjectionInv, ContractInv, Numbered, CommentsUpTo
<1>3. C = {j \in A : j <= i}
  <2>1. ASSUME NEW j \in C  PROVE j \in A /\ j <= i
    <3>1. j \in 1 .. Len(events) /\ j <= i /\ Event(j).event = "CommentPublished"
      BY <1>1 DEF CommentsUpTo
    <3>2. Event(j).block <= Event(i).block
      <4>1. j = i \/ j < i
        BY <1>1, <3>1
      <4>. QED
        BY <1>1, <3>1, <4>1 DEF ProjectionInv, ContractInv, Ordered
    <3>3. Event(j).block < next["events"]
      BY <1>1, <3>1, <3>2
    <3>. QED
      BY <1>1, <3>1, <3>3
  <2>2. ASSUME NEW j \in A, j <= i  PROVE j \in C
    BY <1>1, <2>2 DEF CommentsUpTo
  <2>. QED
    BY <2>1, <2>2
<1>4. m \in A /\ \A j \in A : j <= m
  <2>1. m \in A \cup {NotYet} /\ (m = NotYet <=> A = {}) /\ \A j \in A : j <= m
    BY <1>1, LastIsLast
  <2>2. A # {}
    OBVIOUS
  <2>. QED
    BY <2>1, <2>2
<1>5. i \in A
  OBVIOUS
<1>6. IsFiniteSet(A) /\ C \in SUBSET A
  <2>1. IsFiniteSet(1 .. Len(events))
    BY <1>1, FS_Interval
  <2>2. IsFiniteSet(A)
    <3>. HIDE DEF A
    <3>. QED
      BY <1>1, <2>1, FS_Subset
  <2>. QED
    BY <1>3, <2>2
<1>. HIDE DEF A, C, m
<1>7. /\ IsFiniteSet(C) /\ Cardinality(C) <= Cardinality(A)
      /\ Cardinality(A) = Cardinality(C) => A = C
  BY <1>6, FS_Subset
<1>8. Cardinality(C) \in Nat
  BY <1>7, FS_CardinalityType
<1>9. Cardinality(C) = Cardinality(A) <=> i = m
  <2>1. ASSUME i = m  PROVE C = A
    BY <1>3, <1>4, <2>1
  <2>2. ASSUME C = A  PROVE i = m
    <3>1. m <= i /\ i <= m /\ i \in Nat /\ m \in Nat
      BY <1>1, <1>3, <1>4, <1>5, <2>2
    <3>. QED
      BY <3>1
  <2>. QED
    BY <1>7, <2>1, <2>2
<1>. QED
  BY <1>2, <1>7, <1>8, <1>9 DEF A, C, m

\* No snapshot of comments is refused.
LEMMA CommentSnapshots ==
    ASSUME ProjectionInv, view = "comments", anchor = NotYet
    PROVE  CommentSnapshotAccepted(kept)
<1>. DEFINE A == AppliedIn("events")
            comments == UNION {{kept.entries[p][n] : n \in 1 .. Len(kept.entries[p])} :
                                   p \in DOMAIN kept.entries}
<1>1. /\ CommentsIn(kept, A) /\ A \in SUBSET (1 .. Len(events)) /\ Len(events) \in Nat
      /\ last["events"] = LastIn(A)
      /\ BlockNumber(last["events"]) \in Nat
      /\ BlockNumber(last["events"]) < next["events"]
      /\ next["events"] = confirmed + 1 /\ confirmed \in Nat
  <2>1. SoFar["events"] = A /\ "events" \in Stream
    BY DerivedNow DEF Stream
  <2>. QED
    BY <2>1, DerivedNow, LastIsBefore DEF Derived, ProjectionInv, Placed
<1>2. /\ kept.count = Cardinality(A) /\ DOMAIN kept.entries \subseteq TrackedPosts
      /\ \A p \in DOMAIN kept.entries :
            {kept.entries[p][n] : n \in 1 .. Len(kept.entries[p])} \subseteq A
  <2>. HIDE DEF A
  <2>. QED
    BY <1>1 DEF CommentsIn, Listed, Got, CommentsOn
<1>3. comments \subseteq A
  BY <1>2
<1>4. IsFiniteSet(A)
  <2>1. IsFiniteSet(1 .. Len(events))
    BY <1>1, FS_Interval
  <2>. HIDE DEF A
  <2>. QED
    BY <1>1, <2>1, FS_Subset
<1>5. Cardinality(comments) <= kept.count
  <2>. HIDE DEF A, comments
  <2>1. Cardinality(comments) <= Cardinality(A)
    BY <1>3, <1>4, FS_Subset
  <2>. QED
    BY <1>2, <2>1
<1>6. (kept.count = 0) = (last["events"] = NotYet)
  <2>1. Cardinality(A) = 0 <=> A = {}
    <3>. HIDE DEF A
    <3>. QED
      BY <1>4, FS_EmptySet
  <2>2. LastIn(A) = NotYet <=> A = {}
    <3>. HIDE DEF A
    <3>. QED
      BY <1>1, LastIsLast
  <2>. QED
    BY <1>1, <1>2, <2>1, <2>2
<1>7. ASSUME NEW i \in comments
      PROVE  /\ Event(i).id <= kept.count
             /\ i <= last["events"]
             /\ (Event(i).id = kept.count) = (i = last["events"])
  <2>1. i \in A
    BY <1>3
  <2>2. i <= LastIn(A)
    <3>. HIDE DEF A
    <3>. QED
      BY <1>1, <2>1, LastIsLast
  <2>3. /\ Event(i).id <= Cardinality(A)
        /\ Event(i).id = Cardinality(A) <=> i = LastIn(A)
    BY <2>1, CommentsNumbered
  <2>. QED
    BY <1>1, <1>2, <2>2, <2>3
<1>8. BlockNumber(last["events"]) <= confirmed
  BY <1>1
<1>. HIDE DEF comments
<1>9. /\ DOMAIN kept.entries \subseteq TrackedPosts
      /\ Cardinality(comments) <= kept.count
      /\ (kept.count = 0) = (last["events"] = NotYet)
      /\ \A i \in comments :
            /\ Event(i).id <= kept.count
            /\ i <= last["events"]
            /\ (Event(i).id = kept.count) = (i = last["events"])
      /\ confirmed # NotYet => BlockNumber(last["events"]) <= confirmed
  BY <1>2, <1>5, <1>6, <1>7, <1>8
<1>. QED
  BY <1>9 DEF CommentSnapshotAccepted, comments

\* No snapshot of reactions is refused.
LEMMA ReactionSnapshots ==
    ASSUME ProjectionInv, view = "reactions", anchor = NotYet
    PROVE  ReactionSnapshotAccepted(Snapshot)
<1>. DEFINE L == AppliedIn("likes")
            R == AppliedIn("reposts")
<1>1. /\ Stream = {"likes", "reposts"} /\ IsKept(kept) /\ ReactionsIn(kept, L, R)
      /\ L \in SUBSET (1 .. Len(events)) /\ R \in SUBSET (1 .. Len(events))
      /\ Len(events) \in Nat
      /\ last["likes"] = LastIn(L) /\ last["reposts"] = LastIn(R)
  <2>1. SoFar["likes"] = L /\ SoFar["reposts"] = R /\ Stream = {"likes", "reposts"}
    BY DerivedNow DEF Stream
  <2>. QED
    BY <2>1, DerivedNow, LastIsBefore DEF Derived
<1>2. ASSUME NEW s \in Stream
      PROVE  Boundary(s) = confirmed /\ confirmed \in Nat
  <2>1. next[s] = confirmed + 1
    BY DEF ProjectionInv, Placed
  <2>2. /\ confirmed \in Nat /\ Boundary(s) \in Nat /\ Boundary(s) < next[s]
        /\ confirmed <= Boundary(s)
    BY LastIsBefore
  <2>. QED
    BY <2>1, <2>2
<1>3. FrontierStart = confirmed /\ FrontierEnd = confirmed /\ confirmed \in Nat
  BY <1>1, <1>2 DEF FrontierStart, FrontierEnd, Lower, Higher
<1>4. \A b \in kept.hashes : ~ (b > confirmed)
  <2>. SUFFICES ASSUME NEW b \in kept.hashes  PROVE ~ (b > confirmed)
    OBVIOUS
  <2>1. PICK i \in L \cup R : b = Event(i).block
    BY <1>1 DEF ReactionsIn
  <2>2. PICK s \in Stream : i \in AppliedIn(s)
    BY <1>1, <2>1
  <2>3. Event(i).block < next[s] /\ Event(i).block \in Nat
    BY <2>2, AppliedIs DEF ProjectionInv, Placed
  <2>4. next[s] = confirmed + 1
    BY DEF ProjectionInv, Placed
  <2>. QED
    BY <1>3, <2>1, <2>3, <2>4
<1>. DEFINE k == Snapshot
<1>5. k.active = kept.active /\ k.reposts = kept.reposts /\ k.hashes = {}
  <2>. DEFINE h == {b \in kept.hashes : b > FrontierStart}
  <2>1. k = [kept EXCEPT !.hashes = h]
    BY DEF Snapshot
  <2>2. h = {}
    BY <1>3, <1>4
  <2>. HIDE DEF k, h
  <2>. QED
    BY <1>1, <2>1, <2>2 DEF IsKept
<1>. HIDE DEF k, L, R
<1>6. k.active # {} => last["likes"] # NotYet
  <2>. SUFFICES ASSUME k.active # {}  PROVE L # {}
    BY <1>1, LastIsLast
  <2>1. PICK like \in kept.active : TRUE
    BY <1>5
  <2>2. like \in Nat \X Account
    BY <1>1 DEF ReactionsIn
  <2>3. like = <<like[1], like[2]>> /\ like[1] \in Nat /\ like[2] \in Account
    BY <2>2
  <2>4. like[2] \in Likers(L, like[1])
    BY <1>1, <2>3 DEF ReactionsIn
  <2>5. LikesBy(L, like[1], like[2]) # {}
    BY <2>4 DEF Likers, LastIn
  <2>. QED
    BY <2>5 DEF LikesBy
<1>7. (DOMAIN k.reposts # {}) = (last["reposts"] # NotYet)
  <2>1. DOMAIN k.reposts = {} <=> R = {}
    <3>1. DOMAIN k.reposts = {Event(i).post : i \in R}
      BY <1>1, <1>5 DEF ReactionsIn
    <3>. QED
      BY <3>1
  <2>2. last["reposts"] = NotYet <=> R = {}
    BY <1>1, LastIsLast
  <2>. QED
    BY <2>1, <2>2
<1>8. ASSUME NEW p \in DOMAIN k.reposts  PROVE k.reposts[p] > 0
  <2>1. PICK i \in R : p = Event(i).post
    BY <1>1, <1>5 DEF ReactionsIn
  <2>2. p \in Nat
    <3>1. R \subseteq 1 .. Len(events) /\ InScope("reposts", Event(i))
      BY <2>1 DEF AppliedIn, Through, R
    <3>2. Event(i).event = "RepostPublished" /\ WellFormed(Event(i))
      BY <2>1, <3>1 DEF InScope, ProjectionInv, ContractInv, Genuine
    <3>3. issued["post"] \in Nat
      BY DEF ProjectionInv, ContractInv, ContractTypes, Family
    <3>. QED
      BY <2>1, <3>2, <3>3 DEF WellFormed
  <2>3. k.reposts[p] = Cardinality(RepostsOf(R, p))
    <3>1. CountOf(kept.reposts, p) = Cardinality(RepostsOf(R, p))
      BY <1>1, <2>2 DEF ReactionsIn
    <3>. QED
      BY <1>5, <3>1 DEF CountOf
  <2>4. RepostsOf(R, p) # {}
    BY <2>1 DEF RepostsOf
  <2>5. IsFiniteSet(RepostsOf(R, p))
    <3>1. IsFiniteSet(1 .. Len(events))
      BY <1>1, FS_Interval
    <3>2. RepostsOf(R, p) \in SUBSET (1 .. Len(events))
      BY <1>1 DEF RepostsOf
    <3>. QED
      BY <3>1, <3>2, FS_Subset
  <2>6. Cardinality(RepostsOf(R, p)) \in Nat /\ Cardinality(RepostsOf(R, p)) # 0
    BY <2>4, <2>5, FS_CardinalityType, FS_EmptySet
  <2>. QED
    BY <2>3, <2>6
<1>9. ~ (FrontierStart < FrontierEnd)
  BY <1>3
<1>10. ReactionSnapshotAccepted(k)
  BY <1>5, <1>6, <1>7, <1>8, <1>9 DEF ReactionSnapshotAccepted
<1>. QED
  BY <1>10 DEF k

\* No page of true events, no confirmation and no snapshot is ever refused.
THEOREM NothingRefused == Spec => []NeverRefused
<1>1. ASSUME ProjectionInv  PROVE NeverRefused
  <2>1. ASSUME Resumable, anchor = NotYet  PROVE SnapshotAccepted(Snapshot)
    <3>1. CASE view = "profiles"
      <4>1. Snapshot = kept
        BY <3>1 DEF Snapshot
      <4>2. ProfileSnapshotAccepted(Snapshot)
        BY <1>1, <3>1, <4>1, ProfileSnapshots
      <4>. QED
        BY <3>1, <4>2 DEF SnapshotAccepted
    <3>2. CASE view = "comments"
      <4>1. Snapshot = kept
        BY <3>2 DEF Snapshot
      <4>2. CommentSnapshotAccepted(Snapshot)
        BY <1>1, <2>1, <3>2, <4>1, CommentSnapshots
      <4>. QED
        BY <3>2, <4>2 DEF SnapshotAccepted
    <3>3. CASE view = "reactions"
      <4>1. ReactionSnapshotAccepted(Snapshot)
        BY <1>1, <2>1, <3>3, ReactionSnapshots
      <4>. QED
        BY <3>3, <4>1 DEF SnapshotAccepted
    <3>. QED
      BY <2>1, <3>1, <3>2, <3>3 DEF Resumable
  <2>. QED
    BY <1>1, <2>1, PagesAccepted, ConfirmationsAccepted DEF NeverRefused
<1>. QED
  BY <1>1, ProjectionInvariance, PTL

-----------------------------------------------------------------------------
(* The number an address is, and the order of addresses.                    *)

\* Induction up to a number, over a set.
LEMMA UpTo ==
    ASSUME NEW n \in Nat, NEW S, 0 \in S,
           \A i \in 1 .. n : i - 1 \in S => i \in S
    PROVE  \A i \in 0 .. n : i \in S
<1>. DEFINE T == {i \in 0 .. n : i \notin S}
<1>. SUFFICES ASSUME T # {}  PROVE FALSE
  OBVIOUS
<1>1. PICK m \in T : \A y \in T : m <= y
  <2>. T \in SUBSET Nat
    OBVIOUS
  <2>. HIDE DEF T
  <2>. QED
    BY LeastNumber
<1>2. m # 0 /\ m \in 1 .. n /\ m - 1 \in 0 .. n
  BY <1>1
<1>3. m - 1 \notin T
  BY <1>1, <1>2
<1>. QED
  BY <1>1, <1>2, <1>3

\* v[k] is the number that the first k digits of an address are.
Valued(v, a, n) ==
    v = [k \in 0 .. n |-> IF k = 0 THEN 0 ELSE 16 * v[k - 1] + a[k]]

\* There is such a function for the digits of an address.
LEMMA ValuesExist ==
    ASSUME NEW a \in Account
    PROVE  \E v : Valued(v, a, DigitCount)
<1>0. DigitCount \in Nat
  BY AccountIsSequence
<1>. DEFINE S == {n \in 0 .. DigitCount : \E v : Valued(v, a, n)}
<1>1. 0 \in S
  <2>1. Valued([k \in 0 .. 0 |-> 0], a, 0)
    BY DEF Valued
  <2>. QED
    BY <1>0, <2>1
<1>2. ASSUME NEW n \in 1 .. DigitCount, n - 1 \in S  PROVE n \in S
  <2>1. PICK v : Valued(v, a, n - 1)
    BY <1>2
  <2>. DEFINE new == 16 * v[n - 1] + a[n]
              w == [k \in 0 .. n |-> IF k = n THEN new ELSE v[k]]
  <2>2. \A k \in 0 .. n - 1 :
            /\ w[k] = v[k]
            /\ v[k] = IF k = 0 THEN 0 ELSE 16 * v[k - 1] + a[k]
    BY <1>0, <2>1 DEF Valued
  <2>3. w[n] = new /\ w = [k \in 0 .. n |-> w[k]]
    BY <1>0
  <2>. HIDE DEF w
  <2>4. ASSUME NEW k \in 0 .. n
        PROVE  w[k] = IF k = 0 THEN 0 ELSE 16 * w[k - 1] + a[k]
    <3>1. CASE k = n
      <4>1. n - 1 \in 0 .. n - 1 /\ n # 0
        BY <1>0
      <4>. QED
        BY <2>2, <2>3, <3>1, <4>1
    <3>2. CASE k # n
      <4>1. k \in 0 .. n - 1 /\ (k # 0 => k - 1 \in 0 .. n - 1)
        BY <1>0, <3>2
      <4>. QED
        BY <2>2, <4>1
    <3>. QED
      BY <3>1, <3>2
  <2>5. Valued(w, a, n)
    BY <2>3, <2>4 DEF Valued
  <2>. QED
    BY <1>0, <2>5
<1>3. DigitCount \in S
  <2>. HIDE DEF S
  <2>. QED
    BY <1>0, <1>1, <1>2, UpTo
<1>. QED
  BY <1>3

\* The number of an address, digit by digit.
LEMMA NumberIs ==
    ASSUME NEW a \in Account
    PROVE  \E v : /\ v[0] = 0
                  /\ \A k \in 1 .. DigitCount : v[k] = 16 * v[k - 1] + a[k]
                  /\ \A k \in 0 .. DigitCount : v[k] \in Nat
                  /\ Number(a) = v[DigitCount]
<1>0. /\ DigitCount \in Nat
      /\ \A k \in 1 .. DigitCount : a[k] \in 0 .. 15
  BY AccountIsSequence
<1>. DEFINE v == CHOOSE w : Valued(w, a, DigitCount)
<1>1. Valued(v, a, DigitCount)
  <2>1. \E w : Valued(w, a, DigitCount)
    BY ValuesExist
  <2>. QED
    BY <2>1
<1>2. Number(a) = v[DigitCount]
  BY DEF Number, Valued
<1>. HIDE DEF v
<1>3. \A k \in 0 .. DigitCount :
          v[k] = IF k = 0 THEN 0 ELSE 16 * v[k - 1] + a[k]
  BY <1>1 DEF Valued
<1>4. v[0] = 0 /\ \A k \in 1 .. DigitCount : v[k] = 16 * v[k - 1] + a[k]
  BY <1>0, <1>3
<1>5. \A k \in 0 .. DigitCount : v[k] \in Nat
  <2>. DEFINE S == {k \in 0 .. DigitCount : v[k] \in Nat}
  <2>1. 0 \in S
    BY <1>0, <1>4
  <2>2. ASSUME NEW k \in 1 .. DigitCount, k - 1 \in S  PROVE k \in S
    <3>1. v[k - 1] \in Nat /\ a[k] \in Nat /\ k \in 0 .. DigitCount
      BY <1>0, <2>2
    <3>. QED
      BY <1>4, <3>1
  <2>3. \A k \in 0 .. DigitCount : k \in S
    <3>. HIDE DEF S
    <3>. QED
      BY <1>0, <2>1, <2>2, UpTo
  <2>. QED
    BY <2>3
<1>. QED
  BY <1>2, <1>4, <1>5

\* The first digit in which two addresses differ is lower in the first.
Before(a, b) ==
    \E n \in 1 .. DigitCount :
        a[n] < b[n] /\ \A k \in 1 .. n - 1 : a[k] = b[k]

\* Addresses that differ are in one order or the other.
LEMMA OneIsBefore ==
    ASSUME NEW a \in Account, NEW b \in Account, a # b
    PROVE  Before(a, b) \/ Before(b, a)
<1>0. /\ DigitCount \in Nat
      /\ \A k \in 1 .. DigitCount : a[k] \in 0 .. 15 /\ b[k] \in 0 .. 15
      /\ a = [k \in 1 .. DigitCount |-> a[k]]
      /\ b = [k \in 1 .. DigitCount |-> b[k]]
  BY AccountIsSequence
<1>. DEFINE T == {k \in 1 .. DigitCount : a[k] # b[k]}
<1>1. T # {}
  BY <1>0
<1>2. PICK n \in T : \A k \in T : n <= k
  <2>. T \in SUBSET Nat
    BY <1>0
  <2>. HIDE DEF T
  <2>. QED
    BY <1>1, LeastNumber
<1>3. n \in 1 .. DigitCount /\ a[n] # b[n]
  BY <1>2
<1>4. \A k \in 1 .. n - 1 : a[k] = b[k] /\ b[k] = a[k]
  BY <1>0, <1>2
<1>5. a[n] < b[n] \/ b[n] < a[n]
  <2>1. a[n] \in 0 .. 15 /\ b[n] \in 0 .. 15
    BY <1>0, <1>3
  <2>. QED
    BY <1>3, <2>1
<1>. QED
  BY <1>3, <1>4, <1>5 DEF Before

\* The number of the address that is before is the lower one.
LEMMA BeforeIsLower ==
    ASSUME NEW a \in Account, NEW b \in Account, Before(a, b)
    PROVE  Number(a) < Number(b)
<1>0. /\ DigitCount \in Nat
      /\ \A k \in 1 .. DigitCount : a[k] \in 0 .. 15 /\ b[k] \in 0 .. 15
  BY AccountIsSequence
<1>1. PICK v : /\ v[0] = 0
               /\ \A k \in 1 .. DigitCount : v[k] = 16 * v[k - 1] + a[k]
               /\ \A k \in 0 .. DigitCount : v[k] \in Nat
               /\ Number(a) = v[DigitCount]
  BY NumberIs
<1>2. PICK w : /\ w[0] = 0
               /\ \A k \in 1 .. DigitCount : w[k] = 16 * w[k - 1] + b[k]
               /\ \A k \in 0 .. DigitCount : w[k] \in Nat
               /\ Number(b) = w[DigitCount]
  BY NumberIs
<1>3. PICK n \in 1 .. DigitCount :
          a[n] < b[n] /\ \A k \in 1 .. n - 1 : a[k] = b[k]
  BY DEF Before
<1>. DEFINE S == {k \in 0 .. DigitCount : IF k < n THEN v[k] = w[k] ELSE v[k] < w[k]}
<1>4. 0 \in S
  BY <1>0, <1>1, <1>2
<1>5. ASSUME NEW k \in 1 .. DigitCount, k - 1 \in S  PROVE k \in S
  <2>1. /\ k \in 0 .. DigitCount /\ k - 1 \in 0 .. DigitCount
        /\ v[k] = 16 * v[k - 1] + a[k] /\ w[k] = 16 * w[k - 1] + b[k]
        /\ v[k - 1] \in Nat /\ w[k - 1] \in Nat
        /\ a[k] \in 0 .. 15 /\ b[k] \in 0 .. 15
    BY <1>0, <1>1, <1>2
  <2>2. CASE k < n
    <3>1. k \in 1 .. n - 1 /\ k - 1 < n
      BY <1>0, <2>2
    <3>2. a[k] = b[k] /\ v[k - 1] = w[k - 1]
      BY <1>3, <1>5, <3>1
    <3>. QED
      BY <2>1, <2>2, <3>2
  <2>3. CASE k = n
    <3>1. k - 1 < n
      BY <1>0, <2>3
    <3>2. a[k] < b[k] /\ v[k - 1] = w[k - 1]
      BY <1>3, <1>5, <2>3, <3>1
    <3>. QED
      BY <2>1, <2>3, <3>2
  <2>4. CASE k > n
    <3>1. ~ (k - 1 < n) /\ ~ (k < n)
      BY <1>0, <2>4
    <3>2. v[k - 1] < w[k - 1]
      BY <1>5, <3>1
    <3>3. v[k] < w[k]
      BY <2>1, <3>2
    <3>. QED
      BY <2>1, <3>1, <3>3
  <2>. QED
    BY <1>0, <2>2, <2>3, <2>4
<1>6. DigitCount \in S
  <2>. HIDE DEF S
  <2>. QED
    BY <1>0, <1>4, <1>5, UpTo
<1>7. v[DigitCount] < w[DigitCount]
  BY <1>0, <1>6
<1>. QED
  BY <1>1, <1>2, <1>7

\* Addresses are in the order of their numbers.
LEMMA NumbersOrder ==
    ASSUME NEW a \in Account, NEW b \in Account
    PROVE  /\ Number(a) \in Nat
           /\ Number(a) < Number(b) <=> Before(a, b)
           /\ Number(a) = Number(b) <=> a = b
<1>1. Number(a) \in Nat /\ Number(b) \in Nat
  <2>1. DigitCount \in 0 .. DigitCount
    BY AccountIsSequence
  <2>. QED
    BY <2>1, NumberIs
<1>2. Before(a, b) => Number(a) < Number(b)
  BY BeforeIsLower
<1>3. Before(b, a) => Number(b) < Number(a)
  BY BeforeIsLower
<1>4. a # b => Before(a, b) \/ Before(b, a)
  BY OneIsBefore
<1>. QED
  BY <1>1, <1>2, <1>3, <1>4

-----------------------------------------------------------------------------
(* The index: which address a walk through the tree comes to.               *)

\* The tree of some addresses.
IndexOf(on) == UNION {Prefixes(a) : a \in on}

\* Two addresses have their first n digits in common.
Share(a, b, n) == \A k \in 1 .. n : a[k] = b[k]

\* Addresses that share digits share a node.
LEMMA SharedNode ==
    ASSUME NEW a \in Account, NEW b \in Account, NEW n \in 0 .. DigitCount
    PROVE  SubSeq(a, 1, n) = SubSeq(b, 1, n) <=> Share(a, b, n)
<1>1. SubSeq(a, 1, n) = [k \in 1 .. n |-> a[k]]
  BY BeginningOf
<1>2. SubSeq(b, 1, n) = [k \in 1 .. n |-> b[k]]
  BY BeginningOf
<1>. DEFINE p == [k \in 1 .. n |-> a[k]]
            q == [k \in 1 .. n |-> b[k]]
<1>3. (\A k \in 1 .. n : p[k] = a[k]) /\ (\A k \in 1 .. n : q[k] = b[k])
  OBVIOUS
<1>4. Share(a, b, n) => p = q
  BY DEF Share
<1>5. p = q => Share(a, b, n)
  <2>. HIDE DEF p, q
  <2>. QED
    BY <1>3 DEF Share
<1>. QED
  BY <1>1, <1>2, <1>4, <1>5

\* The children of a node are the nodes of the addresses below it.
LEMMA ChildrenAre ==
    ASSUME NEW on \in SUBSET Account, NEW c \in Account,
           NEW n \in 1 .. DigitCount
    PROVE  Children(IndexOf(on), SubSeq(c, 1, n - 1))
               = {SubSeq(b, 1, n) : b \in {d \in on : Share(d, c, n - 1)}}
<1>. DEFINE p == SubSeq(c, 1, n - 1)
            nodes == {SubSeq(b, 1, n) : b \in {d \in on : Share(d, c, n - 1)}}
<1>0. DigitCount \in Nat /\ n \in Nat /\ n \in 0 .. DigitCount
      /\ n - 1 \in 0 .. DigitCount /\ (n - 1) + 1 = n
  BY AccountIsSequence
<1>1. Len(p) = n - 1
  BY <1>0, BeginningOf
<1>2. ASSUME NEW b \in on
      PROVE  /\ Len(SubSeq(b, 1, n)) = n
             /\ IsPrefix(p, SubSeq(b, 1, n)) <=> Share(b, c, n - 1)
  <2>. DEFINE q == SubSeq(b, 1, n)
  <2>1. q \in Seq(0 .. 15) /\ Len(q) = n /\ q = [k \in 1 .. n |-> b[k]]
    BY <1>0, BeginningOf
  <2>2. SubSeq(b, 1, n - 1) = [k \in 1 .. n - 1 |-> b[k]]
    BY <1>0, BeginningOf
  <2>3. \A k \in 1 .. n - 1 : q[k] = b[k]
    BY <1>0, <2>1
  <2>. HIDE DEF q
  <2>4. SubSeq(q, 1, n - 1) = [k \in 1 .. n - 1 |-> q[k]]
    BY <1>0, <2>1
  <2>5. SubSeq(q, 1, n - 1) = SubSeq(b, 1, n - 1)
    BY <2>2, <2>3, <2>4
  <2>6. SubSeq(b, 1, n - 1) = p <=> Share(b, c, n - 1)
    BY <1>0, SharedNode
  <2>7. IsPrefix(p, q) <=> SubSeq(q, 1, n - 1) = p
    <3>1. Len(p) = n - 1 /\ Len(p) <= Len(q)
      BY <1>0, <1>1, <2>1
    <3>. HIDE DEF p
    <3>. QED
      BY <3>1 DEF IsPrefix
  <2>. QED
    BY <2>1, <2>5, <2>6, <2>7 DEF q
<1>3. ASSUME NEW q \in Children(IndexOf(on), p)  PROVE q \in nodes
  <2>1. q \in IndexOf(on) /\ Len(q) = n /\ IsPrefix(p, q)
    BY <1>0, <1>1, <1>3 DEF Children
  <2>2. PICK b \in on : q \in Prefixes(b)
    BY <2>1 DEF IndexOf
  <2>3. q = SubSeq(b, 1, n)
    BY <2>1, <2>2, PrefixIs
  <2>4. Share(b, c, n - 1)
    BY <1>2, <2>1, <2>3
  <2>. QED
    BY <2>3, <2>4
<1>4. ASSUME NEW q \in nodes  PROVE q \in Children(IndexOf(on), p)
  <2>1. PICK b \in on : Share(b, c, n - 1) /\ q = SubSeq(b, 1, n)
    BY <1>4
  <2>2. q \in IndexOf(on)
    BY <2>1 DEF IndexOf, Prefixes
  <2>3. Len(q) = Len(p) + 1 /\ IsPrefix(p, q)
    BY <1>0, <1>1, <1>2, <2>1
  <2>. QED
    BY <2>2, <2>3 DEF Children
<1>. QED
  BY <1>3, <1>4

\* The lowest of the nodes of some addresses that differ in their last digit
\* at most.
LEMMA LowestIs ==
    ASSUME NEW B \in SUBSET Account, NEW n \in 1 .. DigitCount, NEW c \in B,
           \A b \in B : Share(b, c, n - 1) /\ c[n] <= b[n]
    PROVE  LowestDigit({SubSeq(b, 1, n) : b \in B}) = SubSeq(c, 1, n)
<1>. DEFINE nodes == {SubSeq(b, 1, n) : b \in B}
            Low(p) == \A q \in nodes : p[Len(p)] <= q[Len(q)]
            p == CHOOSE x \in nodes : Low(x)
<1>0. DigitCount \in Nat /\ n \in Nat /\ n \in 0 .. DigitCount
  BY AccountIsSequence
<1>1. ASSUME NEW b \in B
      PROVE  /\ Len(SubSeq(b, 1, n)) = n
             /\ SubSeq(b, 1, n)[n] = b[n]
  <2>1. Len(SubSeq(b, 1, n)) = n /\ SubSeq(b, 1, n) = [k \in 1 .. n |-> b[k]]
    BY <1>0, BeginningOf
  <2>2. n \in 1 .. n
    BY <1>0
  <2>. QED
    BY <2>1, <2>2
<1>2. SubSeq(c, 1, n) \in nodes /\ Low(SubSeq(c, 1, n))
  BY <1>1
<1>3. p \in nodes /\ Low(p)
  <2>. HIDE DEF nodes, Low
  <2>. QED
    BY <1>2
<1>4. LowestDigit(nodes) = p
  BY DEF LowestDigit
<1>. HIDE DEF p
<1>5. PICK b \in B : p = SubSeq(b, 1, n)
  BY <1>3
<1>6. b[n] <= c[n]
  BY <1>1, <1>2, <1>3, <1>5
<1>7. b[n] \in Nat /\ c[n] \in Nat
  BY AccountIsSequence
<1>8. b[n] = c[n]
  BY <1>6, <1>7
<1>9. Share(b, c, n)
  <2>1. \A k \in 1 .. n : k = n \/ k \in 1 .. n - 1
    BY <1>0
  <2>. QED
    BY <1>8, <2>1 DEF Share
<1>10. p = SubSeq(c, 1, n)
  BY <1>0, <1>5, <1>9, SharedNode
<1>. QED
  BY <1>4, <1>10

\* Some address is the lowest.
LEMMA LowestExists ==
    ASSUME NEW S \in SUBSET Account, S # {}
    PROVE  \E c \in S : \A b \in S : Number(c) <= Number(b)
<1>. DEFINE N == {Number(b) : b \in S}
<1>1. N \in SUBSET Nat /\ N # {}
  BY NumbersOrder
<1>2. PICK n \in N : \A k \in N : n <= k
  <2>. HIDE DEF N
  <2>. QED
    BY <1>1, LeastNumber
<1>. QED
  BY <1>2

\* An address that shares digits with another and is lower in the next is
\* before it.
LEMMA LowerIsBefore ==
    ASSUME NEW a \in Account, NEW b \in Account, NEW n \in 1 .. DigitCount,
           Share(a, b, n - 1), a[n] < b[n]
    PROVE  Number(a) < Number(b)
  BY NumbersOrder DEF Share, Before

\* Going down from a node of an address, the way leads to it unless a lower
\* one has that node too.
LEMMA WayDown ==
    ASSUME NEW on \in SUBSET Account, NEW c \in on, NEW m \in 0 .. DigitCount,
           \A b \in on : Share(b, c, m) => Number(c) <= Number(b),
           NEW n \in 1 .. DigitCount, n > m
    PROVE  /\ Children(IndexOf(on), SubSeq(c, 1, n - 1)) # {}
           /\ LowestDigit(Children(IndexOf(on), SubSeq(c, 1, n - 1)))
                  = SubSeq(c, 1, n)
<1>. DEFINE B == {d \in on : Share(d, c, n - 1)}
            nodes == {SubSeq(b, 1, n) : b \in B}
<1>0. DigitCount \in Nat /\ n \in Nat /\ m \in Nat
  BY AccountIsSequence
<1>1. Children(IndexOf(on), SubSeq(c, 1, n - 1)) = nodes
  BY ChildrenAre
<1>2. c \in B
  BY DEF Share
<1>3. ASSUME NEW b \in B  PROVE Share(b, c, n - 1) /\ c[n] <= b[n]
  <2>1. Share(b, c, n - 1) /\ b \in on
    OBVIOUS
  <2>2. \A k \in 1 .. m : k \in 1 .. n - 1
    BY <1>0
  <2>3. Share(b, c, m)
    BY <2>1, <2>2 DEF Share
  <2>4. Number(c) <= Number(b) /\ Number(c) \in Nat /\ Number(b) \in Nat
    BY <2>1, <2>3, NumbersOrder
  <2>5. ~ (b[n] < c[n])
    BY <2>1, <2>4, LowerIsBefore
  <2>6. b[n] \in Nat /\ c[n] \in Nat
    <3>1. b \in Account /\ c \in Account
      OBVIOUS
    <3>. HIDE DEF B
    <3>. QED
      BY <3>1, AccountIsSequence
  <2>. QED
    BY <2>1, <2>5, <2>6
<1>. HIDE DEF B
<1>4. B \in SUBSET Account
  BY DEF B
<1>5. LowestDigit(nodes) = SubSeq(c, 1, n)
  BY <1>2, <1>3, <1>4, LowestIs
<1>6. nodes # {}
  BY <1>2
<1>. QED
  BY <1>1, <1>5, <1>6

\* The way down from a node, by its definition.
Descent(down, index, node) ==
    down = [n \in 0 .. DigitCount |->
               IF n <= Len(node) THEN node
               ELSE IF Children(index, down[n - 1]) = {} THEN None
               ELSE LowestDigit(Children(index, down[n - 1]))]

\* The first address below a node of an address is that address, unless a
\* lower one has that node too.
LEMMA FirstIs ==
    ASSUME NEW on \in SUBSET Account, NEW c \in on, NEW m \in 0 .. DigitCount,
           \A b \in on : Share(b, c, m) => Number(c) <= Number(b)
    PROVE  findFirstIndexed(IndexOf(on), SubSeq(c, 1, m)) = c
<1>. DEFINE index == IndexOf(on)
            node == SubSeq(c, 1, m)
            g == [n \in 0 .. DigitCount |->
                     IF n <= m THEN node ELSE SubSeq(c, 1, n)]
            d == CHOOSE x : Descent(x, index, node)
<1>0. DigitCount \in Nat /\ m \in Nat
  BY AccountIsSequence
<1>1. Len(node) = m
  BY BeginningOf
<1>2. ASSUME NEW n \in 1 .. DigitCount, n > m
      PROVE  /\ g[n - 1] = SubSeq(c, 1, n - 1)
             /\ g[n] = SubSeq(c, 1, n)
             /\ Children(index, g[n - 1]) # {}
             /\ LowestDigit(Children(index, g[n - 1])) = g[n]
  <2>1. n - 1 \in 0 .. DigitCount /\ n \in 0 .. DigitCount /\ ~ (n <= m)
        /\ (n - 1 <= m => n - 1 = m)
    BY <1>0, <1>2
  <2>2. g[n - 1] = SubSeq(c, 1, n - 1) /\ g[n] = SubSeq(c, 1, n)
    BY <2>1
  <2>3. /\ Children(index, SubSeq(c, 1, n - 1)) # {}
        /\ LowestDigit(Children(index, SubSeq(c, 1, n - 1))) = SubSeq(c, 1, n)
    BY <1>2, WayDown
  <2>. HIDE DEF g, index
  <2>. QED
    BY <2>2, <2>3
<1>3. \A n \in 0 .. DigitCount : n <= m => g[n] = node
  OBVIOUS
<1>4. g = [n \in 0 .. DigitCount |-> g[n]]
  OBVIOUS
<1>5. g[DigitCount] = c
  <2>1. DigitCount \in 0 .. DigitCount /\ (DigitCount <= m => m = DigitCount)
    BY <1>0
  <2>2. SubSeq(c, 1, DigitCount) = c
    BY <2>1, BeginningOf, AccountIsSequence
  <2>. QED
    BY <2>1, <2>2
<1>. HIDE DEF g, index, node
<1>6. Descent(g, index, node)
  <2>1. ASSUME NEW n \in 0 .. DigitCount
        PROVE  g[n] = IF n <= Len(node) THEN node
                      ELSE IF Children(index, g[n - 1]) = {} THEN None
                      ELSE LowestDigit(Children(index, g[n - 1]))
    <3>1. CASE n <= m
      BY <1>1, <1>3, <3>1
    <3>2. CASE ~ (n <= m)
      <4>1. n \in 1 .. DigitCount /\ n > m
        BY <1>0, <3>2
      <4>. QED
        BY <1>1, <1>2, <3>2, <4>1
    <3>. QED
      BY <3>1, <3>2
  <2>. QED
    BY <1>4, <2>1 DEF Descent
<1>7. Descent(d, index, node)
  BY <1>6
<1>8. findFirstIndexed(index, node) = d[DigitCount]
  BY DEF findFirstIndexed, Descent
<1>. HIDE DEF d
<1>9. \A n \in 0 .. DigitCount :
          d[n] = IF n <= Len(node) THEN node
                 ELSE IF Children(index, d[n - 1]) = {} THEN None
                 ELSE LowestDigit(Children(index, d[n - 1]))
  BY <1>7 DEF Descent
<1>. DEFINE S == {n \in 0 .. DigitCount : d[n] = g[n]}
<1>10. 0 \in S
  <2>1. 0 \in 0 .. DigitCount /\ 0 <= m
    BY <1>0
  <2>. QED
    BY <1>1, <1>3, <1>9, <2>1
<1>11. ASSUME NEW n \in 1 .. DigitCount, n - 1 \in S  PROVE n \in S
  <2>1. n \in 0 .. DigitCount /\ d[n - 1] = g[n - 1]
    BY <1>0, <1>11
  <2>2. CASE n <= m
    BY <1>1, <1>3, <1>9, <2>1, <2>2
  <2>3. CASE ~ (n <= m)
    <3>1. n > m
      BY <1>0, <2>1, <2>3
    <3>2. /\ Children(index, g[n - 1]) # {}
          /\ LowestDigit(Children(index, g[n - 1])) = g[n]
      BY <1>2, <3>1
    <3>3. d[n] = g[n]
      BY <1>1, <1>9, <2>1, <2>3, <3>2
    <3>. QED
      BY <2>1, <3>3
  <2>. QED
    BY <2>2, <2>3
<1>12. DigitCount \in S
  <2>1. DigitCount \in 0 .. DigitCount
    BY <1>0
  <2>. HIDE DEF S
  <2>. QED
    BY <1>0, <1>10, <1>11, <2>1, UpTo
<1>. QED
  BY <1>5, <1>8, <1>12 DEF index, node

-----------------------------------------------------------------------------
(* The next address.                                                        *)

\* A digit is a number.
LEMMA DigitIsNat ==
    ASSUME NEW a \in Account, NEW n \in 1 .. DigitCount
    PROVE  a[n] \in Nat
  BY AccountIsSequence

\* b comes after a, and the n-th digit is the first in which they differ.
AfterAt(a, b, n) == Share(b, a, n - 1) /\ a[n] < b[n]

\* The lowest of some addresses.
IsLowest(c, S) == c \in S /\ \A b \in S : Number(c) <= Number(b)

\* Whoever comes after an address does so at some digit.
LEMMA AfterSomewhere ==
    ASSUME NEW a \in Account, NEW b \in Account
    PROVE  Number(a) < Number(b) <=> \E n \in 1 .. DigitCount : AfterAt(a, b, n)
<1>1. \A n \in 1 .. DigitCount :
          AfterAt(a, b, n) <=> a[n] < b[n] /\ \A k \in 1 .. n - 1 : a[k] = b[k]
  BY DEF AfterAt, Share
<1>2. Before(a, b) <=> \E n \in 1 .. DigitCount : AfterAt(a, b, n)
  <2>. HIDE DEF AfterAt
  <2>. QED
    BY <1>1 DEF Before
<1>. QED
  BY <1>2, NumbersOrder

\* The later siblings of the node of an address.
LEMMA SiblingsAre ==
    ASSUME NEW on \in SUBSET Account, NEW a \in Account,
           NEW n \in 1 .. DigitCount
    PROVE  LaterSiblings(IndexOf(on), a, n)
               = {SubSeq(b, 1, n) : b \in {d \in on : AfterAt(a, d, n)}}
<1>. DEFINE B == {d \in on : Share(d, a, n - 1)}
            C == {d \in on : AfterAt(a, d, n)}
<1>1. Children(IndexOf(on), SubSeq(a, 1, n - 1)) = {SubSeq(b, 1, n) : b \in B}
  BY ChildrenAre
<1>2. ASSUME NEW b \in on  PROVE SubSeq(b, 1, n)[n] = b[n]
  <2>1. n \in 0 .. DigitCount /\ n \in 1 .. n /\ b \in Account
    BY AccountIsSequence
  <2>2. SubSeq(b, 1, n) = [k \in 1 .. n |-> b[k]]
    BY <2>1, BeginningOf
  <2>. QED
    BY <2>1, <2>2
<1>3. \A b : b \in C <=> b \in B /\ a[n] < b[n]
  BY DEF AfterAt
<1>4. B \in SUBSET on
  OBVIOUS
<1>. HIDE DEF B, C
<1>5. LaterSiblings(IndexOf(on), a, n)
          = {p \in {SubSeq(b, 1, n) : b \in B} : p[n] > a[n]}
  BY <1>1 DEF LaterSiblings
<1>6. \A b \in B : SubSeq(b, 1, n)[n] > a[n] <=> a[n] < b[n]
  <2>1. ASSUME NEW b \in B  PROVE SubSeq(b, 1, n)[n] > a[n] <=> a[n] < b[n]
    <3>1. b \in on /\ b \in Account
      BY <1>4, <2>1
    <3>3. SubSeq(b, 1, n)[n] = b[n]
      BY <1>2, <3>1
    <3>2. a[n] \in Nat /\ b[n] \in Nat
      BY <3>1, DigitIsNat
    <3>. QED
      BY <3>2, <3>3
  <2>. QED
    BY <2>1
<1>7. {p \in {SubSeq(b, 1, n) : b \in B} : p[n] > a[n]}
          = {SubSeq(b, 1, n) : b \in C}
  BY <1>3, <1>6
<1>. QED
  BY <1>5, <1>7 DEF C

\* Nobody comes after the last address.
LEMMA NoNext ==
    ASSUME NEW on \in SUBSET Account, NEW a \in Account,
           \A b \in on : ~ (Number(a) < Number(b))
    PROVE  findNextIndexed(IndexOf(on), a) = None
<1>. DEFINE depths == {n \in 1 .. DigitCount : LaterSiblings(IndexOf(on), a, n) # {}}
<1>1. ASSUME NEW n \in 1 .. DigitCount
      PROVE  LaterSiblings(IndexOf(on), a, n) = {}
  <2>1. \A b \in on : ~ AfterAt(a, b, n)
    BY AfterSomewhere
  <2>. QED
    BY <2>1, SiblingsAre
<1>2. depths = {}
  BY <1>1
<1>. QED
  BY <1>2 DEF findNextIndexed

\* The way to the next address: up from the leaf to the first node with a
\* later sibling, and down from the lowest of these.
LEMMA NextAddressIs ==
    ASSUME NEW on \in SUBSET Account, NEW a \in Account, NEW c,
           IsLowest(c, {b \in on : Number(a) < Number(b)})
    PROVE  findNextIndexed(IndexOf(on), a) = c
<1>. DEFINE later == {b \in on : Number(a) < Number(b)}
            depths == {n \in 1 .. DigitCount : LaterSiblings(IndexOf(on), a, n) # {}}
<1>0. DigitCount \in Nat
  BY AccountIsSequence
<1>1. c \in on /\ c \in Account /\ c \in later /\ \A b \in later : Number(c) <= Number(b)
  BY DEF IsLowest
<1>2. PICK m \in 1 .. DigitCount : AfterAt(a, c, m)
  <2>1. Number(a) < Number(c)
    BY <1>1
  <2>. QED
    BY <1>1, <2>1, AfterSomewhere
<1>3. ASSUME NEW b \in on, NEW n \in 1 .. DigitCount, AfterAt(a, b, n)
      PROVE  ~ (Number(b) < Number(c))
  <2>1. b \in later
    BY <1>3, AfterSomewhere
  <2>2. Number(c) <= Number(b) /\ Number(b) \in Nat /\ Number(c) \in Nat
    BY <1>1, <2>1, NumbersOrder
  <2>. QED
    BY <2>2
<1>4. m \in depths
  <2>1. LaterSiblings(IndexOf(on), a, m)
            = {SubSeq(b, 1, m) : b \in {d \in on : AfterAt(a, d, m)}}
    BY SiblingsAre
  <2>2. SubSeq(c, 1, m) \in LaterSiblings(IndexOf(on), a, m)
    BY <1>1, <1>2, <2>1
  <2>. QED
    BY <2>2
<1>5. ASSUME NEW n \in depths  PROVE n <= m
  <2>1. PICK b \in on : AfterAt(a, b, n)
    BY SiblingsAre
  <2>. SUFFICES ASSUME n > m  PROVE FALSE
    BY <1>0, <1>5
  <2>2. m \in 1 .. n - 1 /\ \A k \in 1 .. m - 1 : k \in 1 .. n - 1
    BY <1>0, <1>5
  <2>3. b[m] < c[m] /\ Share(b, c, m - 1)
    BY <1>2, <2>1, <2>2 DEF AfterAt, Share
  <2>4. Number(b) < Number(c)
    BY <1>1, <2>3, LowerIsBefore
  <2>. QED
    BY <1>3, <2>1, <2>4
<1>6. Max(depths) = m
  <2>1. depths \in SUBSET Nat
    BY <1>0
  <2>. HIDE DEF depths
  <2>. QED
    BY <1>4, <1>5, <2>1, MaxIs
<1>. DEFINE B == {d \in on : AfterAt(a, d, m)}
<1>7. LaterSiblings(IndexOf(on), a, m) = {SubSeq(b, 1, m) : b \in B}
  BY SiblingsAre
<1>8. ASSUME NEW b \in B  PROVE Share(b, c, m - 1) /\ c[m] <= b[m]
  <2>1. b \in Account /\ AfterAt(a, b, m) /\ b \in on
    OBVIOUS
  <2>2. Share(b, c, m - 1)
    BY <1>2, <2>1 DEF AfterAt, Share
  <2>3. ~ (b[m] < c[m])
    BY <1>1, <1>3, <2>1, <2>2, LowerIsBefore
  <2>4. b[m] \in Nat /\ c[m] \in Nat
    <3>1. b \in Account /\ c \in Account
      BY <1>1, <2>1
    <3>. HIDE DEF B
    <3>. QED
      BY <3>1, DigitIsNat
  <2>. QED
    BY <2>2, <2>3, <2>4
<1>9. c \in B /\ B \in SUBSET Account
  BY <1>1, <1>2
<1>10. LowestDigit(LaterSiblings(IndexOf(on), a, m)) = SubSeq(c, 1, m)
  <2>. HIDE DEF B
  <2>. QED
    BY <1>7, <1>8, <1>9, LowestIs
<1>11. ASSUME NEW b \in on, Share(b, c, m)  PROVE Number(c) <= Number(b)
  <2>1. m \in 1 .. m /\ \A k \in 1 .. m - 1 : k \in 1 .. m
    BY <1>0
  <2>2. AfterAt(a, b, m)
    BY <1>2, <1>11, <2>1 DEF AfterAt, Share
  <2>3. ~ (Number(b) < Number(c)) /\ Number(b) \in Nat /\ Number(c) \in Nat
    BY <1>1, <1>3, <2>2, NumbersOrder
  <2>. QED
    BY <2>3
<1>12. findFirstIndexed(IndexOf(on), SubSeq(c, 1, m)) = c
  <2>1. m \in 0 .. DigitCount
    BY <1>0
  <2>. QED
    BY <1>1, <1>11, <2>1, FirstIs
<1>13. depths # {}
  BY <1>4
<1>14. findNextIndexed(IndexOf(on), a)
           = findFirstIndexed(IndexOf(on),
                 LowestDigit(LaterSiblings(IndexOf(on), a, Max(depths))))
  BY <1>13 DEF findNextIndexed
<1>. HIDE DEF depths
<1>. QED
  BY <1>6, <1>10, <1>12, <1>14

\* The first of all addresses.
LEMMA FirstOfAll ==
    ASSUME NEW on \in SUBSET Account, NEW c, IsLowest(c, on)
    PROVE  findFirstIndexed(IndexOf(on), <<>>) = c
<1>1. c \in on /\ c \in Account /\ 0 \in 0 .. DigitCount
  BY AccountIsSequence DEF IsLowest
<1>2. findFirstIndexed(IndexOf(on), SubSeq(c, 1, 0)) = c
  BY <1>1, FirstIs DEF IsLowest
<1>3. SubSeq(c, 1, 0) = <<>>
  <2>1. SubSeq(c, 1, 0) \in Seq(0 .. 15) /\ Len(SubSeq(c, 1, 0)) = 0
    BY <1>1, BeginningOf
  <2>. QED
    BY <2>1
<1>. QED
  BY <1>2, <1>3

\* The tree is empty when there is nobody.
LEMMA IndexIsEmpty ==
    ASSUME NEW on \in SUBSET Account
    PROVE  IndexOf(on) = {} <=> on = {}
<1>1. \A a \in on : a \in Prefixes(a)
  BY WholeIsPrefix
<1>. QED
  BY <1>1 DEF IndexOf

-----------------------------------------------------------------------------
(* A page of the list.                                                      *)

\* How many of some addresses are before one.
Rank(S, a) == Cardinality({b \in S : Number(b) < Number(a)})

\* The ranks of some addresses are in their order.
LEMMA RankIs ==
    ASSUME NEW S \in SUBSET Account, IsFiniteSet(S), NEW a \in S
    PROVE  /\ Rank(S, a) \in Nat
           /\ Rank(S, a) + 1 <= Cardinality(S)
           /\ \A b \in S : Number(a) < Number(b) => Rank(S, a) < Rank(S, b)
<1>. DEFINE Under(c) == {b \in S : Number(b) < Number(c)}
<1>1. ASSUME NEW T \in SUBSET S, Under(a) \subseteq T, a \in T
      PROVE  Cardinality(Under(a)) + 1 <= Cardinality(T)
  <2>. DEFINE L == Under(a)
  <2>1. a \notin L /\ L \cup {a} \in SUBSET T
    BY <1>1, NumbersOrder
  <2>2. IsFiniteSet(T) /\ IsFiniteSet(L)
    BY FS_Subset
  <2>. HIDE DEF L
  <2>3. Cardinality(L \cup {a}) = Cardinality(L) + 1
    BY <2>1, <2>2, FS_AddElement
  <2>. DEFINE M == L \cup {a}
  <2>4. M \in SUBSET T /\ Cardinality(M) = Cardinality(L) + 1
    BY <2>1, <2>3
  <2>. HIDE DEF M
  <2>5. Cardinality(M) <= Cardinality(T)
    BY <2>2, <2>4, FS_Subset
  <2>. QED
    BY <2>4, <2>5 DEF L
<1>2. \A c : IsFiniteSet(Under(c)) /\ Cardinality(Under(c)) \in Nat
  <2>1. ASSUME NEW c  PROVE IsFiniteSet(Under(c))
    BY FS_Subset
  <2>. HIDE DEF Under
  <2>. QED
    BY <2>1, FS_CardinalityType
<1>3. Cardinality(Under(a)) + 1 <= Cardinality(S)
  BY <1>1
<1>4. ASSUME NEW b \in S, Number(a) < Number(b)
      PROVE  Cardinality(Under(a)) < Cardinality(Under(b))
  <2>1. Number(a) \in Nat /\ Number(b) \in Nat /\ \A c \in S : Number(c) \in Nat
    BY NumbersOrder
  <2>2. Under(b) \in SUBSET S /\ Under(a) \subseteq Under(b) /\ a \in Under(b)
    BY <1>4, <2>1
  <2>. DEFINE T == Under(b)
  <2>3. T \in SUBSET S /\ Under(a) \subseteq T /\ a \in T
    BY <2>2
  <2>4. Cardinality(Under(a)) \in Nat /\ Cardinality(T) \in Nat
    BY <1>2
  <2>. HIDE DEF T, Under
  <2>5. Cardinality(Under(a)) + 1 <= Cardinality(T)
    BY <1>1, <2>3
  <2>. QED
    BY <2>4, <2>5 DEF T
<1>5. \A c : Rank(S, c) = Cardinality(Under(c))
  BY DEF Rank
<1>. HIDE DEF Under
<1>. QED
  BY <1>2, <1>3, <1>4, <1>5

\* The next one's rank is one more.
LEMMA NextRank ==
    ASSUME NEW S \in SUBSET Account, IsFiniteSet(S), NEW a \in S, NEW c,
           IsLowest(c, {b \in S : Number(a) < Number(b)})
    PROVE  c \in S /\ Rank(S, c) = Rank(S, a) + 1
<1>. DEFINE L == {b \in S : Number(b) < Number(a)}
            M == {b \in S : Number(b) < Number(c)}
<1>1. c \in S /\ Number(a) < Number(c)
  BY DEF IsLowest
<1>2. ASSUME NEW b \in S
      PROVE  /\ Number(b) \in Nat /\ Number(a) \in Nat /\ Number(c) \in Nat
             /\ Number(a) < Number(b) => Number(c) <= Number(b)
             /\ Number(b) = Number(a) => b = a
  <2>1. b \in Account /\ c \in Account /\ a \in Account
    BY <1>1
  <2>2. /\ Number(b) \in Nat /\ Number(a) \in Nat /\ Number(c) \in Nat
        /\ Number(b) = Number(a) => b = a
    BY <2>1, NumbersOrder
  <2>3. Number(a) < Number(b) => Number(c) <= Number(b)
    BY DEF IsLowest
  <2>. QED
    BY <2>2, <2>3
<1>3. \A b \in S : Number(b) < Number(c) <=> Number(b) < Number(a) \/ b = a
  BY <1>1, <1>2
<1>4. M = L \cup {a} /\ a \notin L
  BY <1>2, <1>3
<1>5. IsFiniteSet(L)
  BY FS_Subset
<1>6. Rank(S, a) = Cardinality(L) /\ Rank(S, c) = Cardinality(M)
  BY DEF Rank
<1>. HIDE DEF L, M
<1>7. Cardinality(M) = Cardinality(L) + 1
  BY <1>4, <1>5, FS_AddElement
<1>. QED
  BY <1>1, <1>6, <1>7

\* The lowest one's rank is none.
LEMMA FirstRank ==
    ASSUME NEW S \in SUBSET Account, NEW c, IsLowest(c, S)
    PROVE  c \in S /\ Rank(S, c) = 0
<1>1. c \in S
  BY DEF IsLowest
<1>2. ASSUME NEW b \in S  PROVE ~ (Number(b) < Number(c))
  <2>1. Number(c) <= Number(b)
    BY DEF IsLowest
  <2>2. Number(b) \in Nat /\ Number(c) \in Nat
    BY <1>1, NumbersOrder
  <2>. QED
    BY <2>1, <2>2
<1>3. {b \in S : Number(b) < Number(c)} = {}
  BY <1>2
<1>. QED
  BY <1>1, <1>3, FS_EmptySet DEF Rank

\* The last one's rank is one less than how many there are.
LEMMA LastRank ==
    ASSUME NEW S \in SUBSET Account, IsFiniteSet(S), NEW a \in S,
           \A b \in S : ~ (Number(a) < Number(b))
    PROVE  Cardinality(S) = Rank(S, a) + 1
<1>. DEFINE L == {b \in S : Number(b) < Number(a)}
<1>1. \A b \in S : /\ Number(b) \in Nat /\ Number(a) \in Nat
                   /\ Number(b) = Number(a) <=> b = a
  BY NumbersOrder
<1>2. \A b \in S : b \in L \cup {a}
  BY <1>1
<1>3. S = L \cup {a} /\ a \notin L
  BY <1>1, <1>2
<1>4. IsFiniteSet(L)
  BY FS_Subset
<1>5. Rank(S, a) = Cardinality(L)
  BY DEF Rank
<1>. HIDE DEF L
<1>6. Cardinality(L \cup {a}) = Cardinality(L) + 1
  BY <1>3, <1>4, FS_AddElement
<1>. QED
  BY <1>3, <1>5, <1>6

\* Addresses of one rank are one.
LEMMA OneOfARank ==
    ASSUME NEW S \in SUBSET Account, IsFiniteSet(S), NEW a \in S, NEW b \in S
    PROVE  /\ Rank(S, a) = Rank(S, b) => a = b
           /\ Rank(S, a) <= Rank(S, b) => Number(a) <= Number(b)
<1>1. /\ Rank(S, a) \in Nat /\ Rank(S, b) \in Nat
      /\ Number(a) < Number(b) => Rank(S, a) < Rank(S, b)
      /\ Number(b) < Number(a) => Rank(S, b) < Rank(S, a)
  BY RankIs
<1>2. /\ Number(a) \in Nat /\ Number(b) \in Nat
      /\ Number(a) = Number(b) => a = b
  BY NumbersOrder
<1>. QED
  BY <1>1, <1>2

\* A walk through the list: key[k] is the address after k steps.
Walk(key, index, start, n) ==
    key = [k \in 0 .. n |-> IF k = 0 THEN start
                            ELSE IF key[k - 1] = None THEN None
                            ELSE findNextIndexed(index, key[k - 1])]

\* There is such a walk.
LEMMA WalksExist ==
    ASSUME NEW index, NEW start, NEW max \in Nat
    PROVE  \E key : Walk(key, index, start, max)
<1>. DEFINE S == {n \in 0 .. max : \E key : Walk(key, index, start, n)}
<1>1. 0 \in S
  <2>. DEFINE v == [k \in 0 .. 0 |-> start]
  <2>1. Walk(v, index, start, 0)
    BY DEF Walk
  <2>2. \E key : Walk(key, index, start, 0)
    <3>. HIDE DEF v
    <3>. QED
      BY <2>1
  <2>. QED
    BY <2>2
<1>2. ASSUME NEW n \in 1 .. max, n - 1 \in S  PROVE n \in S
  <2>1. PICK v : Walk(v, index, start, n - 1)
    BY <1>2
  <2>. DEFINE new == IF v[n - 1] = None THEN None ELSE findNextIndexed(index, v[n - 1])
              w == [k \in 0 .. n |-> IF k = n THEN new ELSE v[k]]
  <2>2. \A k \in 0 .. n - 1 :
            /\ w[k] = v[k]
            /\ v[k] = IF k = 0 THEN start
                      ELSE IF v[k - 1] = None THEN None
                      ELSE findNextIndexed(index, v[k - 1])
    BY <2>1 DEF Walk
  <2>3. w[n] = new /\ w = [k \in 0 .. n |-> w[k]]
    OBVIOUS
  <2>. HIDE DEF w
  <2>4. ASSUME NEW k \in 0 .. n
        PROVE  w[k] = IF k = 0 THEN start
                      ELSE IF w[k - 1] = None THEN None
                      ELSE findNextIndexed(index, w[k - 1])
    <3>1. CASE k = n
      <4>1. n - 1 \in 0 .. n - 1 /\ n # 0
        OBVIOUS
      <4>. QED
        BY <2>2, <2>3, <3>1, <4>1
    <3>2. CASE k # n
      <4>1. k \in 0 .. n - 1 /\ (k # 0 => k - 1 \in 0 .. n - 1)
        BY <3>2
      <4>. QED
        BY <2>2, <4>1
    <3>. QED
      BY <3>1, <3>2
  <2>5. Walk(w, index, start, n)
    BY <2>3, <2>4 DEF Walk
  <2>. QED
    BY <2>5
<1>3. max \in S
  <2>. HIDE DEF S
  <2>. QED
    BY <1>1, <1>2, UpTo
<1>. QED
  BY <1>3

\* Nobody is None.
LEMMA NoneIsNobody == None \notin Account
<1>1. ASSUME NEW a \in Account, a = <<>>  PROVE FALSE
  <2>1. Len(a) = DigitCount /\ DigitCount \in Nat \ {0}
    BY AccountIsSequence
  <2>2. Len(<<>>) = 0
    OBVIOUS
  <2>. QED
    BY <1>1, <2>1, <2>2
<1>. QED
  BY <1>1 DEF None

\* What a walk comes to after k steps: the one of rank k.
LEMMA WalkIs ==
    ASSUME NEW on \in SUBSET Account, NEW rest \in SUBSET on, IsFiniteSet(rest),
           NEW start, NEW key, NEW max \in Nat,
           Walk(key, IndexOf(on), start, max),
           \A a \in rest : \A b \in on : Number(a) < Number(b) => b \in rest,
           rest = {} => start = None,
           rest # {} => IsLowest(start, rest)
    PROVE  \A k \in 0 .. max :
               IF key[k] = None THEN Cardinality(rest) <= k
               ELSE key[k] \in rest /\ Rank(rest, key[k]) = k
<1>. DEFINE Right(k) == IF key[k] = None THEN Cardinality(rest) <= k
                        ELSE key[k] \in rest /\ Rank(rest, key[k]) = k
            S == {k \in 0 .. max : Right(k)}
<1>0. rest \in SUBSET Account /\ Cardinality(rest) \in Nat
  BY FS_CardinalityType
<1>1. \A k \in 0 .. max :
          key[k] = IF k = 0 THEN start
                   ELSE IF key[k - 1] = None THEN None
                   ELSE findNextIndexed(IndexOf(on), key[k - 1])
  BY DEF Walk
<1>2. Right(0)
  <2>1. key[0] = start
    BY <1>1
  <2>2. CASE rest = {}
    <3>1. Cardinality(rest) = 0
      BY <2>2, FS_EmptySet
    <3>. QED
      BY <2>1, <2>2, <3>1
  <2>3. CASE rest # {}
    <3>1. start \in rest /\ Rank(rest, start) = 0
      BY <1>0, <2>3, FirstRank
    <3>2. start # None
      BY <1>0, <3>1, NoneIsNobody
    <3>. QED
      BY <2>1, <3>1, <3>2
  <2>. QED
    BY <2>2, <2>3
<1>3. ASSUME NEW k \in 1 .. max, Right(k - 1)  PROVE Right(k)
  <2>1. k - 1 \in 0 .. max /\ k \in 0 .. max /\ k # 0
    OBVIOUS
  <2>2. CASE key[k - 1] = None
    <3>1. key[k] = None
      BY <1>1, <2>1, <2>2
    <3>2. Cardinality(rest) <= k - 1
      BY <1>3, <2>2
    <3>. QED
      BY <1>0, <2>1, <3>1, <3>2
  <2>3. CASE key[k - 1] # None
    <3>. DEFINE a == key[k - 1]
                later == {b \in rest : Number(a) < Number(b)}
    <3>1. a \in rest /\ Rank(rest, a) = k - 1
      BY <1>3, <2>3
    <3>2. key[k] = findNextIndexed(IndexOf(on), a)
      BY <1>1, <2>1, <2>3
    <3>. HIDE DEF a
    <3>3. {b \in on : Number(a) < Number(b)} = later
      BY <3>1
    <3>4. a \in Account
      BY <1>0, <3>1
    <3>5. CASE later = {}
      <4>1. \A b \in on : ~ (Number(a) < Number(b))
        BY <3>3, <3>5
      <4>2. key[k] = None
        BY <3>2, <3>4, <4>1, NoNext
      <4>3. \A b \in rest : ~ (Number(a) < Number(b))
        BY <4>1
      <4>4. Cardinality(rest) = Rank(rest, a) + 1
        BY <1>0, <3>1, <4>3, LastRank
      <4>5. Cardinality(rest) <= k
        BY <1>0, <2>1, <3>1, <4>4
      <4>. QED
        BY <4>2, <4>5
    <3>6. CASE later # {}
      <4>1. later \in SUBSET Account
        BY <1>0
      <4>2. PICK c \in later : \A b \in later : Number(c) <= Number(b)
        <5>. HIDE DEF later
        <5>. QED
          BY <3>6, <4>1, LowestExists
      <4>3. IsLowest(c, later)
        <5>. HIDE DEF later
        <5>. QED
          BY <4>2 DEF IsLowest
      <4>4. key[k] = c
        <5>1. IsLowest(c, {b \in on : Number(a) < Number(b)})
          BY <3>3, <4>3
        <5>. QED
          BY <3>2, <3>4, <5>1, NextAddressIs
      <4>5. c \in rest /\ Rank(rest, c) = Rank(rest, a) + 1
        BY <1>0, <3>1, <4>3, NextRank
      <4>6. c # None
        BY <1>0, <4>5, NoneIsNobody
      <4>7. Rank(rest, c) = k
        BY <2>1, <3>1, <4>5
      <4>. QED
        BY <4>4, <4>5, <4>6, <4>7
    <3>. QED
      BY <3>5, <3>6
  <2>. QED
    BY <2>2, <2>3
<1>4. 0 \in S /\ \A k \in 1 .. max : k - 1 \in S => k \in S
  <2>. HIDE DEF Right
  <2>1. 0 \in S
    BY <1>2
  <2>2. ASSUME NEW k \in 1 .. max, k - 1 \in S  PROVE k \in S
    <3>1. Right(k - 1) /\ k \in 0 .. max
      BY <2>2
    <3>. QED
      BY <1>3, <3>1
  <2>. QED
    BY <2>1, <2>2
<1>5. \A k \in 0 .. max : k \in S
  <2>. HIDE DEF S
  <2>. QED
    BY <1>4, UpTo
<1>. QED
  BY <1>5

\* A page is of the entries of the lowest ranks, and leads to the others.
PageRight(after, rest) ==
    /\ ReadPage(after).entries = {a \in rest : Rank(rest, a) < ReadLimit}
    /\ (ReadPage(after).nextAfter = None) = (Cardinality(rest) <= ReadLimit)
    /\ ReadPage(after).nextAfter # None =>
          \A a \in ReadPage(after).entries :
              Number(a) <= Number(ReadPage(after).nextAfter)

\* A page of the list, from anywhere: the next entries, in order, and whether
\* there are more.
LEMMA PageIs ==
    ASSUME NEW on \in SUBSET Account, IsFiniteSet(on), kept.index = IndexOf(on),
           NEW after \in {None} \cup on, NEW rest,
           rest = {a \in on : after = None \/ Number(a) > Number(after)}
    PROVE  PageRight(after, rest)
<1>. DEFINE index == kept.index
            start == IF after # None THEN findNextIndexed(index, after)
                     ELSE IF index = {} THEN None ELSE findFirstIndexed(index, <<>>)
            key == CHOOSE w : Walk(w, index, start, ReadLimit)
<1>0. ReadLimit \in Nat \ {0}
  BY ProjectionAssumption
<1>1. Walk(key, index, start, ReadLimit)
  <2>1. \E w : Walk(w, index, start, ReadLimit)
    <3>. HIDE DEF index, start
    <3>. QED
      BY <1>0, WalksExist
  <2>. HIDE DEF index, start
  <2>. QED
    BY <2>1
<1>2. /\ ReadPage(after).entries = {key[n] : n \in 0 .. ReadLimit - 1} \ {None}
      /\ ReadPage(after).nextAfter
             = IF key[ReadLimit] = None THEN None ELSE key[ReadLimit - 1]
  BY DEF ReadPage, Walk
<1>. HIDE DEF key
<1>3. \A a \in on : Number(a) \in Nat
  BY NumbersOrder
<1>4. rest \in SUBSET on /\ rest \in SUBSET Account /\ IsFiniteSet(rest)
  BY FS_Subset
<1>5. \A a \in rest : \A b \in on : Number(a) < Number(b) => b \in rest
  BY <1>3
<1>6. (rest = {} => start = None) /\ (rest # {} => IsLowest(start, rest))
  <2>1. CASE after # None
    <3>1. after \in on /\ after \in Account /\ start = findNextIndexed(IndexOf(on), after)
      BY <2>1
    <3>2. rest = {b \in on : Number(after) < Number(b)}
      BY <1>3, <2>1, <3>1
    <3>3. ASSUME rest = {}  PROVE start = None
      <4>1. \A b \in on : ~ (Number(after) < Number(b))
        BY <3>2, <3>3
      <4>. QED
        BY <3>1, <4>1, NoNext
    <3>4. ASSUME rest # {}  PROVE IsLowest(start, rest)
      <4>1. PICK c \in rest : \A b \in rest : Number(c) <= Number(b)
        BY <1>4, <3>4, LowestExists
      <4>2. IsLowest(c, rest)
        BY <4>1 DEF IsLowest
      <4>3. IsLowest(c, {b \in on : Number(after) < Number(b)})
        BY <3>2, <4>2
      <4>4. start = c
        BY <3>1, <4>3, NextAddressIs
      <4>. QED
        BY <4>2, <4>4
    <3>. QED
      BY <3>3, <3>4
  <2>2. CASE after = None
    <3>1. rest = on
      BY <2>2
    <3>2. ASSUME on = {}  PROVE start = None
      <4>1. index = {}
        BY <3>2, IndexIsEmpty
      <4>. QED
        BY <2>2, <4>1
    <3>3. ASSUME on # {}  PROVE IsLowest(start, on)
      <4>1. PICK c \in on : \A b \in on : Number(c) <= Number(b)
        BY <3>3, LowestExists
      <4>2. IsLowest(c, on)
        BY <4>1 DEF IsLowest
      <4>3. IndexOf(on) # {}
        BY <3>3, IndexIsEmpty
      <4>4. start = findFirstIndexed(IndexOf(on), <<>>)
        BY <2>2, <4>3
      <4>5. start = c
        BY <4>2, <4>4, FirstOfAll
      <4>. QED
        BY <4>2, <4>5
    <3>. QED
      BY <3>1, <3>2, <3>3
  <2>. QED
    BY <2>1, <2>2
<1>7. Walk(key, IndexOf(on), start, ReadLimit)
  BY <1>1
<1>. HIDE DEF start
<1>8. \A k \in 0 .. ReadLimit :
          IF key[k] = None THEN Cardinality(rest) <= k
          ELSE key[k] \in rest /\ Rank(rest, key[k]) = k
  BY <1>0, <1>4, <1>5, <1>6, <1>7, WalkIs
<1>9. \A a \in rest : a # None
  BY <1>4, NoneIsNobody
<1>10. /\ Cardinality(rest) \in Nat
       /\ \A a \in rest : Rank(rest, a) \in Nat /\ Rank(rest, a) + 1 <= Cardinality(rest)
  BY <1>4, RankIs, FS_CardinalityType
<1>. DEFINE E == ReadPage(after).entries
            m == ReadPage(after).nextAfter
<1>11. \A a \in E : a \in rest /\ Rank(rest, a) < ReadLimit
  <2>1. ASSUME NEW a \in E  PROVE a \in rest /\ Rank(rest, a) < ReadLimit
    <3>1. PICK n \in 0 .. ReadLimit - 1 : a = key[n] /\ key[n] # None
      BY <1>2
    <3>2. n \in 0 .. ReadLimit /\ n < ReadLimit
      BY <1>0
    <3>. QED
      BY <1>8, <3>1, <3>2
  <2>. QED
    BY <2>1
<1>12. ASSUME NEW a \in rest, Rank(rest, a) < ReadLimit  PROVE a \in E
  <2>. DEFINE r == Rank(rest, a)
  <2>1. r \in 0 .. ReadLimit - 1 /\ r \in 0 .. ReadLimit /\ r + 1 <= Cardinality(rest)
    BY <1>0, <1>10, <1>12
  <2>2. key[r] # None
    <3>1. ~ (Cardinality(rest) <= r)
      BY <1>10, <2>1
    <3>. HIDE DEF r
    <3>. QED
      BY <1>8, <2>1, <3>1
  <2>3. key[r] \in rest /\ Rank(rest, key[r]) = r
    BY <1>8, <2>1, <2>2
  <2>4. key[r] = a
    <3>. DEFINE b == key[r]
    <3>1. b \in rest /\ Rank(rest, b) = Rank(rest, a)
      BY <2>3
    <3>. HIDE DEF b
    <3>2. b = a
      BY <1>4, <3>1, OneOfARank
    <3>. QED
      BY <3>2 DEF b
  <2>. HIDE DEF r
  <2>. QED
    BY <1>2, <2>1, <2>2, <2>4
<1>13. E = {a \in rest : Rank(rest, a) < ReadLimit}
  <2>. HIDE DEF E
  <2>. QED
    BY <1>11, <1>12
<1>14. CASE key[ReadLimit] = None
  <2>1. m = None
    BY <1>2, <1>14
  <2>2. Cardinality(rest) <= ReadLimit
    BY <1>0, <1>8, <1>14
  <2>. QED
    BY <1>13, <2>1, <2>2 DEF PageRight
<1>15. CASE key[ReadLimit] # None
  <2>1. key[ReadLimit] \in rest /\ Rank(rest, key[ReadLimit]) = ReadLimit
    BY <1>0, <1>8, <1>15
  <2>2. ~ (Cardinality(rest) <= ReadLimit)
    BY <1>0, <1>10, <2>1
  <2>3. m = key[ReadLimit - 1]
    BY <1>2, <1>15
  <2>4. key[ReadLimit - 1] # None
    <3>1. ReadLimit # 0 /\ ReadLimit \in 0 .. ReadLimit
      BY <1>0
    <3>. QED
      BY <1>1, <1>15, <3>1 DEF Walk
  <2>5. m \in rest /\ Rank(rest, m) = ReadLimit - 1 /\ m # None
    <3>1. ReadLimit - 1 \in 0 .. ReadLimit
      BY <1>0
    <3>. QED
      BY <1>8, <2>3, <2>4, <3>1
  <2>. HIDE DEF m, E
  <2>6. ASSUME NEW a \in E  PROVE Number(a) <= Number(m)
    <3>1. a \in rest /\ Rank(rest, a) < ReadLimit /\ Rank(rest, a) \in Nat
      BY <1>10, <1>11
    <3>2. Rank(rest, a) <= Rank(rest, m)
      BY <1>0, <2>5, <3>1
    <3>. QED
      BY <1>4, <2>5, <3>1, <3>2, OneOfARank
  <2>. QED
    BY <1>13, <2>2, <2>5, <2>6 DEF m, E, PageRight
<1>. QED
  BY <1>14, <1>15

\* From any place of the list, a read returns the next entries by address, and
\* says that there are more exactly when there are.
THEOREM PagesAreInOrder == Spec => []ReadsInOrder
<1>1. ASSUME ProjectionInv, Relational
      PROVE  \E on \in SUBSET Account :
                 IsFiniteSet(on) /\ DOMAIN kept.entries = on /\ kept.index = IndexOf(on)
  <2>. DEFINE A == AppliedIn("events")
              on == OnIn(A)
              f == [a \in Account |-> LatestIn(A, a)]
  <2>1. "events" \in Stream
    BY <1>1 DEF Stream, Relational
  <2>2. SoFar["events"] = A /\ A \in SUBSET (1 .. Len(events)) /\ Len(events) \in Nat
    BY <1>1, <2>1, DerivedNow
  <2>3. RelationsOf(kept, on, f)
    BY <1>1, <2>2, DerivedNow DEF Derived, RelationsIn
  <2>. HIDE DEF A, f
  <2>4. on \in SUBSET Account
    BY DEF OnIn
  <2>5. IsFiniteSet(on)
    BY <2>2, OnIsFinite
  <2>. HIDE DEF on
  <2>6. kept.entries = [a \in on |-> f[a]] /\ kept.index = IndexOf(on)
    BY <2>3 DEF RelationsOf, IndexOf
  <2>. QED
    BY <2>4, <2>5, <2>6
<1>2. ASSUME ProjectionInv, Relational,
             NEW after \in {None} \cup DOMAIN kept.entries
      PROVE  LET rest == {a \in DOMAIN kept.entries :
                              after = None \/ Number(a) > Number(after)}
                 page == ReadPage(after)
             IN  /\ page.entries = {a \in rest :
                        Cardinality({b \in rest : Number(b) < Number(a)}) < ReadLimit}
                 /\ (page.nextAfter = None) = (Cardinality(rest) <= ReadLimit)
                 /\ page.nextAfter # None =>
                       \A a \in page.entries : Number(a) <= Number(page.nextAfter)
  <2>1. PICK on \in SUBSET Account :
            IsFiniteSet(on) /\ DOMAIN kept.entries = on /\ kept.index = IndexOf(on)
    BY <1>1, <1>2
  <2>. DEFINE rest == {a \in DOMAIN kept.entries :
                           after = None \/ Number(a) > Number(after)}
  <2>2. rest = {a \in on : after = None \/ Number(a) > Number(after)}
        /\ after \in {None} \cup on
    BY <1>2, <2>1
  <2>. HIDE DEF rest
  <2>3. IsFiniteSet(on) /\ kept.index = IndexOf(on)
    BY <2>1
  <2>4. PageRight(after, rest)
    BY <2>2, <2>3, PageIs
  <2>. QED
    BY <2>4 DEF PageRight, Rank, rest
<1>3. ProjectionInv => ReadsInOrder
  BY <1>2 DEF ReadsInOrder
<1>. QED
  BY <1>3, ProjectionInvariance, PTL

-----------------------------------------------------------------------------
(* What a scope holds.                                                      *)

HeightOf(l) == Height[BlockOf[l]]

\* A log's height is a number.
LEMMA HeightsAreNumbers ==
    /\ \A b \in Block : Height[b] \in Nat
    /\ \A l \in Log : BlockOf[l] \in Block /\ HeightOf(l) \in Nat
  BY ChainAssumption DEF HeightOf

\* Checkpoints stand for finitely many logs.
LEMMA CommittedIsFinite ==
    ASSUME NEW cps, Lineage(StartBlock, cps)
    PROVE  IsFiniteSet(Committed(StartBlock, cps))
<1>1. CASE cps = {}
  BY <1>1, FS_EmptySet DEF Committed
<1>2. CASE cps # {}
  <2>. DEFINE x == Newest(cps)
              A == Ancestors[x]
              F == {{l \in Log : BlockOf[l] = b} : b \in A}
  <2>1. x \in Block /\ A \subseteq Block
    BY <1>2, NewestIsLast, ChainAssumption DEF Lineage
  <2>2. IsFiniteSet(A)
    <3>. DEFINE n == Height[x]
                f == [b \in A |-> Height[b]]
    <3>1. n \in Nat /\ \A b \in A : Height[b] \in 0 .. n
      <4>1. \A b \in A : Height[b] \in Nat /\ Height[b] <= Height[x] /\ Height[x] \in Nat
        BY <2>1, ChainAssumption
      <4>. QED
        BY <2>1, <4>1, HeightsAreNumbers
    <3>2. \A b, c \in A : Height[b] = Height[c] => b = c
      <4>. SUFFICES ASSUME NEW b \in A, NEW c \in A, Height[b] = Height[c]
                    PROVE  b = c
        OBVIOUS
      <4>1. b \in Block /\ c \in Block /\ Height[b] \in Nat /\ Height[b] <= Height[c]
        BY <2>1, HeightsAreNumbers
      <4>2. b \in Ancestors[c]
        BY <2>1, <4>1, ChainAssumption
      <4>. QED
        BY <4>1, <4>2, ChainAssumption
    <3>3. f \in [A -> 0 .. n] /\ \A b, c \in A : f[b] = f[c] => b = c
      BY <3>1, <3>2
    <3>4. IsFiniteSet(0 .. n)
      <4>1. n \in Int /\ 0 \in Int
        BY <3>1
      <4>. HIDE DEF n
      <4>. QED
        BY <4>1, FS_Interval
    <3>. HIDE DEF f, n, A
    <3>5. f \in Injection(A, 0 .. n)
      BY <3>3 DEF Injection, IsInjective
    <3>. QED
      BY <3>4, <3>5, FS_Injection
  <2>3. IsFiniteSet(F)
    <3>. DEFINE h == [b \in A |-> {l \in Log : BlockOf[l] = b}]
    <3>1. h \in Surjection(A, F)
      BY DEF Surjection
    <3>. HIDE DEF h, F, A
    <3>. QED
      BY <2>2, <3>1, FS_Surjection
  <2>4. \A S \in F : IsFiniteSet(S)
    BY <2>1, ReaderAssumption
  <2>5. IsFiniteSet(UNION F)
    <3>. HIDE DEF F
    <3>. QED
      BY <2>3, <2>4, FS_UNION
  <2>6. Committed(StartBlock, cps) \in SUBSET (UNION F)
    BY <1>2 DEF Committed, LogsThrough
  <2>. HIDE DEF F
  <2>. QED
    BY <2>5, <2>6, FS_Subset
<1>. QED
  BY <1>1, <1>2

\* Where a scope continues a position, it holds what was held there, and more
\* from there on only.
LEMMA ContinuedHolds ==
    ASSUME NEW t, NEW position, NEW b,
           Lineage(StartBlock, position.checkpoints),
           Lineage(StartBlock, b.checkpoints),
           b.checkpoints # {} => Newest(b.checkpoints) \in position.checkpoints
    PROVE  /\ Content(t, b) = {l \in Content(t, position) :
                                  HeightOf(l) < NextAfter(StartBlock, b.checkpoints)}
           /\ NextAfter(StartBlock, b.checkpoints) \in Nat
           /\ NextAfter(StartBlock, b.checkpoints) >= StartBlock
<1>. DEFINE all == position.checkpoints
            cps == b.checkpoints
<1>s. StartBlock \in Nat
  BY ReaderAssumption
<1>1. CASE cps = {}
  <2>1. Committed(StartBlock, cps) = {} /\ NextAfter(StartBlock, cps) = StartBlock
    BY <1>1 DEF Committed, NextAfter
  <2>2. \A l \in Committed(StartBlock, all) : ~ (HeightOf(l) < StartBlock)
    <3>. SUFFICES ASSUME NEW l \in Committed(StartBlock, all)
                  PROVE  ~ (HeightOf(l) < StartBlock)
      OBVIOUS
    <3>1. all # {} /\ l \in Log /\ HeightOf(l) \in StartBlock .. Height[Newest(all)]
      BY DEF Committed, LogsThrough, HeightOf
    <3>2. Height[Newest(all)] \in Nat
      BY <3>1, NewestIsLast, HeightsAreNumbers DEF Lineage
    <3>. QED
      BY <1>s, <3>1, <3>2
  <2>. QED
    BY <1>s, <2>1, <2>2 DEF Content
<1>2. CASE cps # {}
  <2>. DEFINE x == Newest(cps)
  <2>1. x \in all /\ x \in Block
    BY <1>2 DEF Lineage
  <2>2. Newest({x}) = x
    BY DEF Newest
  <2>3. /\ Committed(StartBlock, {x}) = Committed(StartBlock, cps)
        /\ NextAfter(StartBlock, {x}) = NextAfter(StartBlock, cps)
    <3>. HIDE DEF x
    <3>1. {x} # {}
      OBVIOUS
    <3>. QED
      BY <1>2, <2>2, <3>1 DEF Committed, NextAfter, x
  <2>4. /\ Committed(StartBlock, {x}) = LogsBefore(Committed(StartBlock, all), NextAfter(StartBlock, {x}))
        /\ NextAfter(StartBlock, {x}) >= StartBlock
    <3>1. {x} \in SUBSET all /\ all \in SUBSET Block /\ SameBranch(StartBlock, all) /\ HasEnds(all)
      BY <2>1 DEF Lineage
    <3>. HIDE DEF x, all
    <3>. QED
      BY <1>s, <3>1, LogsOfFewerCheckpoints
  <2>5. NextAfter(StartBlock, cps) \in Nat
    BY <1>s, NextAfterType DEF Lineage
  <2>. QED
    BY <2>3, <2>4, <2>5 DEF Content, LogsBefore, HeightOf
<1>. QED
  BY <1>1, <1>2

\* What a scope holds, it holds in finitely many blocks below some height.
LEMMA ContentIsFinite ==
    ASSUME NEW t, NEW position, Lineage(StartBlock, position.checkpoints)
    PROVE  /\ IsFiniteSet(Content(t, position))
           /\ Content(t, position) \subseteq Log
           /\ \E n \in Nat : \A l \in Content(t, position) : HeightOf(l) \in 0 .. n
<1>. DEFINE cps == position.checkpoints
            C == Content(t, position)
<1>1. Content(t, position) \in SUBSET Committed(StartBlock, cps)
  BY DEF Content
<1>2. IsFiniteSet(C)
  <2>1. IsFiniteSet(Committed(StartBlock, cps))
    BY CommittedIsFinite
  <2>. HIDE DEF C
  <2>. QED
    BY <1>1, <2>1, FS_Subset DEF C
<1>3. \A l \in Committed(StartBlock, cps) :
          cps # {} /\ l \in Log /\ HeightOf(l) \in StartBlock .. Height[Newest(cps)]
  BY DEF Committed, LogsThrough, HeightOf
<1>4. \E n \in Nat : \A l \in C : HeightOf(l) \in 0 .. n
  <2>1. CASE cps = {}
    <3>1. C = {}
      BY <1>1, <1>3, <2>1
    <3>2. 0 \in Nat
      OBVIOUS
    <3>. QED
      BY <3>1, <3>2
  <2>2. CASE cps # {}
    <3>1. Height[Newest(cps)] \in Nat
      BY <2>2, NewestIsLast, HeightsAreNumbers DEF Lineage
    <3>2. StartBlock \in Nat
      BY ReaderAssumption
    <3>3. \A l \in C : HeightOf(l) \in 0 .. Height[Newest(cps)]
      BY <1>1, <1>3, <3>1, <3>2
    <3>. QED
      BY <3>1, <3>3
  <2>. QED
    BY <2>1, <2>2
<1>. QED
  BY <1>1, <1>2, <1>3, <1>4

\* What was read of a scope and the page after it are all there is of it, or
\* all there is below the height where the next page starts.
PageReads(t, from) ==
    LET C == Content(t, scopes[t])
        before == {l \in C : HeightOf(l) < from}
        m == Max({Height[BlockOf[l]] : l \in PageOf(t, from)})
    IN  /\ Ahead(t, from) = PageOf(t, from) =>
              before \cup PageOf(t, from) = C
        /\ Ahead(t, from) # PageOf(t, from) =>
              /\ m \in Nat
              /\ before \cup PageOf(t, from) = {l \in C : HeightOf(l) < 1 + m}

\* A page holds what the scope has from a height on, up to another height.
LEMMA PageStep ==
    ASSUME NEW t, Lineage(StartBlock, scopes[t].checkpoints), NEW from \in Nat
    PROVE  PageReads(t, from)
<1>. DEFINE C == Content(t, scopes[t])
            before == {l \in C : HeightOf(l) < from}
            A == Ahead(t, from)
            P == PageOf(t, from)
            hs == {Height[BlockOf[l]] : l \in P}
            m == Max(hs)
            Below(k) == {j \in A : HeightOf(j) < k}
<1>1. /\ IsFiniteSet(C)
      /\ C \subseteq Log
      /\ \E n \in Nat : \A l \in C : HeightOf(l) \in 0 .. n
  BY ContentIsFinite
<1>2. A = {l \in C : HeightOf(l) >= from}
  BY DEF Ahead, HeightOf
<1>3. P = {l \in A : Cardinality(Below(HeightOf(l))) < PageSize}
  BY DEF PageOf, HeightOf
<1>4. \A l \in C : HeightOf(l) \in Nat
  BY <1>1, HeightsAreNumbers
<1>. HIDE DEF C, A, P
<1>5. A = P => before \cup P = C
  BY <1>2, <1>4
<1>6. ASSUME A # P
      PROVE  m \in Nat /\ before \cup P = {l \in C : HeightOf(l) < 1 + m}
  <2>1. \A k : IsFiniteSet(Below(k)) /\ Cardinality(Below(k)) \in Nat
    <3>. SUFFICES ASSUME NEW k
                  PROVE  IsFiniteSet(Below(k)) /\ Cardinality(Below(k)) \in Nat
      OBVIOUS
    <3>1. Below(k) \in SUBSET C
      BY <1>2
    <3>. HIDE DEF Below
    <3>. QED
      BY <1>1, <3>1, FS_Subset, FS_CardinalityType
  <2>2. \A j, k \in Nat : j <= k => Cardinality(Below(j)) <= Cardinality(Below(k))
    <3>. SUFFICES ASSUME NEW j \in Nat, NEW k \in Nat, j <= k
                  PROVE  Cardinality(Below(j)) <= Cardinality(Below(k))
      OBVIOUS
    <3>1. Below(j) \in SUBSET Below(k)
      BY <1>2, <1>4
    <3>2. IsFiniteSet(Below(k))
      BY <2>1
    <3>. HIDE DEF Below
    <3>. QED
      BY <3>1, <3>2, FS_Subset
  <2>3. P # {}
    <3>. DEFINE N == {HeightOf(l) : l \in A}
    <3>1. N \in SUBSET Nat /\ N # {}
      BY <1>2, <1>3, <1>4, <1>6
    <3>2. PICK k \in N : \A i \in N : k <= i
      <4>. HIDE DEF N
      <4>. QED
        BY <3>1, LeastNumber
    <3>3. PICK l \in A : HeightOf(l) = k
      BY <3>2
    <3>4. Below(k) = {}
      <4>1. \A j \in A : HeightOf(j) \in Nat /\ k <= HeightOf(j) /\ k \in Nat
        BY <1>2, <1>4, <3>2
      <4>. QED
        BY <4>1
    <3>5. Cardinality(Below(k)) = 0
      <4>1. Cardinality({}) = 0
        BY FS_EmptySet
      <4>. QED
        BY <3>4, <4>1
    <3>6. 0 < PageSize
      BY ReaderAssumption
    <3>7. Cardinality(Below(HeightOf(l))) < PageSize
      BY <3>3, <3>5, <3>6
    <3>. QED
      BY <1>3, <3>3, <3>7
  <2>4. m \in hs /\ m \in Nat /\ \A h \in hs : h <= m /\ h \in Nat
    <3>1. PICK n \in Nat : \A l \in C : HeightOf(l) \in 0 .. n
      BY <1>1
    <3>2. hs \in SUBSET (0 .. n) /\ hs # {}
      BY <1>2, <1>3, <2>3, <3>1 DEF HeightOf
    <3>. HIDE DEF hs
    <3>3. Max(hs) \in hs /\ \A h \in hs : h <= Max(hs)
      BY <3>2, MaxIsGreatest
    <3>4. \A h \in hs : h \in Nat
      BY <3>2
    <3>. HIDE DEF m
    <3>5. m = Max(hs)
      BY DEF m
    <3>. QED
      BY <3>3, <3>4, <3>5
  <2>5. PICK top \in P : HeightOf(top) = m
    BY <2>4 DEF HeightOf
  <2>6. \A l \in P : HeightOf(l) <= m
    BY <2>4 DEF HeightOf
  <2>7. \A l \in A : HeightOf(l) <= m => l \in P
    <3>. SUFFICES ASSUME NEW l \in A, HeightOf(l) <= m  PROVE  l \in P
      OBVIOUS
    <3>1. HeightOf(l) \in Nat /\ m \in Nat
      BY <1>2, <1>4, <2>4
    <3>2. Cardinality(Below(HeightOf(l))) <= Cardinality(Below(m))
      BY <2>2, <3>1
    <3>3. Cardinality(Below(m)) < PageSize
      BY <1>3, <2>5
    <3>4. /\ Cardinality(Below(HeightOf(l))) \in Nat
          /\ Cardinality(Below(m)) \in Nat /\ PageSize \in Nat
      BY <2>1, ReaderAssumption
    <3>5. Cardinality(Below(HeightOf(l))) < PageSize
      <4>. HIDE DEF Below
      <4>. QED
        BY <3>2, <3>3, <3>4
    <3>. QED
      BY <1>3, <3>5
  <2>8. top \in C /\ HeightOf(top) >= from /\ top \in A
    BY <1>2, <1>3, <2>5
  <2>9. P = {l \in A : HeightOf(l) <= m}
    BY <1>3, <2>6, <2>7
  <2>. HIDE DEF m, hs
  <2>10. from <= m
    BY <2>5, <2>8
  <2>. QED
    BY <1>2, <1>4, <2>4, <2>9, <2>10
<1>. QED
  BY <1>5, <1>6 DEF PageReads, C, P, A

-----------------------------------------------------------------------------
(* What the parts of the state satisfy, in every state.  T are the topics   *)
(* of the read model, which do not change.                                  *)

\* The two sets of topics there are.
SomeTopics(T) == T = {"events"} \/ T = {"likes", "reposts"}

AtMostOne(S) == \A x, y \in S : x = y

\* A position of every scope.
Standing(T, positions) ==
    /\ positions = [t \in T |-> positions[t]]
    /\ \A t \in T : Lineage(StartBlock, positions[t].checkpoints)

\* Progress with a proof that was made of a whole history.
Proven(T, p) ==
    /\ p = [at |-> p.at, folded |-> p.folded, digest |-> p.digest,
            proof |-> p.proof]
    /\ Standing(T, p.at)
    /\ p.proof = [at |-> p.at, digest |-> Whole(p.at)]

\* The height from which a run reads a scope.
Base(run, t) ==
    Max({StartBlock} \cup
        {NextAfter(StartBlock, b[t].checkpoints) : b \in run.baselines})

\* The run has read the whole scope.
Passed(phase, t) ==
    phase \in {"authenticate", "complete"} \/ (phase = "reposts" /\ t = "likes")

\* What of a scope the run has folded.
ReadOf(run, t) ==
    {l \in Content(t, run.anchor[t]) :
        \/ Passed(run.phase, t)
        \/ HeightOf(l) < IF t = run.phase THEN From(run, t) ELSE Base(run, t)}

\* The phases of a run that can be advanced or is complete.
Reading(T) == T \cup {"authenticate", "complete"}

RunHolds(T, run) ==
    /\ run = [phase |-> run.phase, open |-> run.open, session |-> run.session,
              anchor |-> run.anchor, folded |-> run.folded,
              baselines |-> run.baselines, next |-> run.next]
    /\ run.phase \in Reading(T) \cup {"unopened", "closed", "failed"}
    /\ run.next \in Nat \cup {Undefined}
    /\ run.phase \in Reading(T) =>
          /\ Standing(T, run.anchor)
          /\ AtMostOne(run.baselines)
          /\ \A b \in run.baselines : Standing(T, b)
          /\ run.folded = UNION {ReadOf(run, t) : t \in T}

\* The topics of each read model, in the order its run reads them.
LEMMA TopicsAre ==
    ASSUME kind \in Kind
    PROVE  /\ SomeTopics(Topics)
           /\ Topics = {"events"} =>
                 Phases = <<"events">> /\ After("events") = "authenticate"
           /\ Topics = {"likes", "reposts"} =>
                 /\ Phases = <<"likes", "reposts">>
                 /\ After("likes") = "reposts"
                 /\ After("reposts") = "authenticate"
<1>1. CASE kind = "reactions"
  <2>1. Phases = <<"likes", "reposts">>
    BY <1>1 DEF Phases
  <2>2. Topics = {"likes", "reposts"}
    BY <2>1 DEF Topics, Range
  <2>3. After("likes") = "reposts"
    <3>1. 1 \in 1 .. Len(Phases) - 1 /\ Phases[1] = "likes"
      BY <2>1
    <3>. QED
      BY <3>1 DEF After
  <2>4. After("reposts") = "authenticate"
    <3>1. \A i \in 1 .. Len(Phases) - 1 : Phases[i] = "likes"
      BY <2>1
    <3>. QED
      BY <3>1 DEF After
  <2>. QED
    BY <2>1, <2>2, <2>3, <2>4 DEF SomeTopics
<1>2. CASE kind # "reactions"
  <2>1. Phases = <<"events">>
    BY <1>2 DEF Phases
  <2>2. Topics = {"events"}
    BY <2>1 DEF Topics, Range
  <2>3. After("events") = "authenticate"
    <3>1. 1 .. Len(Phases) - 1 = {}
      BY <2>1
    <3>. QED
      BY <3>1 DEF After
  <2>. QED
    BY <2>1, <2>2, <2>3 DEF SomeTopics
<1>. QED
  BY <1>1, <1>2

\* A run reads a scope from its start, or from where its baseline ended.
LEMMA BaseIs ==
    ASSUME NEW T, NEW t \in T, NEW run, AtMostOne(run.baselines),
           \A b \in run.baselines : Standing(T, b)
    PROVE  /\ Base(run, t) \in Nat
           /\ run.baselines = {} => Base(run, t) = StartBlock
           /\ \A b \in run.baselines :
                 NextAfter(StartBlock, b[t].checkpoints) >= StartBlock =>
                    Base(run, t) = NextAfter(StartBlock, b[t].checkpoints)
<1>s. StartBlock \in Nat
  BY ReaderAssumption
<1>. DEFINE S == {StartBlock} \cup
                 {NextAfter(StartBlock, b[t].checkpoints) : b \in run.baselines}
<1>1. CASE run.baselines = {}
  <2>1. S = {StartBlock}
    BY <1>1
  <2>2. Max({StartBlock}) = StartBlock
    BY <1>s, MaxIs
  <2>. QED
    BY <1>s, <1>1, <2>1, <2>2 DEF Base
<1>2. CASE run.baselines # {}
  <2>1. PICK b \in run.baselines : TRUE
    BY <1>2
  <2>. DEFINE n == NextAfter(StartBlock, b[t].checkpoints)
  <2>2. run.baselines = {b}
    BY <2>1 DEF AtMostOne
  <2>3. n \in Nat
    BY <1>s, <2>1, NextAfterType DEF Standing, Lineage
  <2>4. S = {StartBlock, n}
    BY <2>2
  <2>. HIDE DEF n
  <2>5. Max({StartBlock, n}) \in {StartBlock, n} /\ (n >= StartBlock => Max({StartBlock, n}) = n)
    <3>1. CASE n >= StartBlock
      <4>1. Max({StartBlock, n}) = n
        BY <1>s, <2>3, <3>1, MaxIs
      <4>. QED
        BY <4>1
    <3>2. CASE ~ (n >= StartBlock)
      <4>1. Max({StartBlock, n}) = StartBlock
        BY <1>s, <2>3, <3>2, MaxIs
      <4>. QED
        BY <3>2, <4>1
    <3>. QED
      BY <3>1, <3>2
  <2>6. Base(run, t) = Max({StartBlock, n})
    BY <2>4 DEF Base
  <2>7. Base(run, t) \in Nat
    BY <1>s, <2>3, <2>5, <2>6
  <2>. QED
    BY <1>2, <2>2, <2>5, <2>6, <2>7 DEF n
<1>. QED
  BY <1>1, <1>2

\* A run's next page starts where the run stopped reading.
LEMMA FromIs ==
    ASSUME NEW T, NEW run, RunHolds(T, run), NEW t \in T, run.phase \in T
    PROVE  /\ From(run, t) \in Nat
           /\ run.next = Undefined => From(run, t) = Base(run, t)
           /\ run.next # Undefined => From(run, t) = run.next
<1>1. Base(run, t) \in Nat
  BY BaseIs DEF RunHolds, Reading
<1>2. From(run, t) = IF run.next # Undefined THEN run.next ELSE Base(run, t)
  BY DEF From, Base
<1>. QED
  BY <1>1, <1>2 DEF RunHolds

\* Applying a page leaves a run that has folded what it has read.
LEMMA AppliedHolds ==
    ASSUME kind \in Kind, NEW T, T = Topics, NEW run, RunHolds(T, run),
           NEW t, t = run.phase, t \in T, scopes[t] = run.anchor[t],
           NEW applied, applied = Applied(run, t, From(run, t))
    PROVE  /\ RunHolds(T, applied)
           /\ applied.phase \in T \cup {"authenticate"}
           /\ applied.open = run.open
           /\ applied.session = run.session
           /\ applied.anchor = run.anchor
<1>. DEFINE from == From(run, t)
            page == PageOf(t, from)
            C == Content(t, scopes[t])
            before == {l \in C : HeightOf(l) < from}
            m == Max({Height[BlockOf[l]] : l \in page})
            done == Ahead(t, from) = page
<1>1. /\ SomeTopics(T)
      /\ T = {"events"} => t = "events" /\ After(t) = "authenticate"
      /\ T = {"likes", "reposts"} =>
            \/ t = "likes" /\ After(t) = "reposts"
            \/ t = "reposts" /\ After(t) = "authenticate"
  BY TopicsAre
<1>2. /\ Standing(T, run.anchor) /\ AtMostOne(run.baselines)
      /\ \A b \in run.baselines : Standing(T, b)
      /\ run.folded = UNION {ReadOf(run, u) : u \in T}
  BY DEF RunHolds, Reading
<1>3. from \in Nat
  BY FromIs
<1>4. /\ done => before \cup page = C
      /\ ~ done => m \in Nat /\ before \cup page = {l \in C : HeightOf(l) < 1 + m}
  <2>1. Lineage(StartBlock, scopes[t].checkpoints)
    BY <1>2 DEF Standing
  <2>. HIDE DEF from
  <2>2. PageReads(t, from)
    BY <1>3, <2>1, PageStep
  <2>. QED
    BY <2>2, Zenon DEF PageReads
<1>5. applied = [phase |-> IF done THEN After(t) ELSE t,
                 open |-> run.open, session |-> run.session,
                 anchor |-> run.anchor, folded |-> run.folded \cup page,
                 baselines |-> run.baselines,
                 next |-> IF done THEN Undefined ELSE 1 + m]
  <2>. HIDE DEF m, done, page
  <2>1. applied = IF done
                  THEN [run EXCEPT !.folded = run.folded \cup page,
                                   !.next = Undefined, !.phase = After(t)]
                  ELSE [run EXCEPT !.folded = run.folded \cup page,
                                   !.next = 1 + m]
    BY DEF Applied, m, done, page
  <2>2. run = [phase |-> run.phase, open |-> run.open, session |-> run.session,
               anchor |-> run.anchor, folded |-> run.folded,
               baselines |-> run.baselines, next |-> run.next]
    BY DEF RunHolds
  <2>. QED
    BY <2>1, <2>2
<1>. HIDE DEF done, m, page, C
<1>6. \A u \in T : Base(applied, u) = Base(run, u)
  BY <1>5 DEF Base
<1>7. ReadOf(run, t) = before
  <2>1. ~ Passed(t, t)
    BY <1>1 DEF Passed, SomeTopics
  <2>. HIDE DEF from
  <2>2. ReadOf(run, t) = {l \in C : HeightOf(l) < from}
    BY <2>1 DEF ReadOf, from, C
  <2>. QED
    BY <2>2
<1>8. ReadOf(applied, t) = before \cup page
  <2>1. CASE done
    <3>1. Passed(applied.phase, t)
      BY <1>1, <1>5, <2>1 DEF Passed, SomeTopics
    <3>2. ReadOf(applied, t) = C
      BY <1>5, <3>1 DEF ReadOf, C
    <3>. QED
      BY <1>4, <2>1, <3>2
  <2>2. CASE ~ done
    <3>1. ~ Passed(t, t)
      BY <1>1 DEF Passed, SomeTopics
    <3>2. applied.phase = t /\ applied.next = 1 + m /\ applied.anchor = run.anchor
      BY <1>5, <2>2
    <3>3. From(applied, t) = 1 + m
      BY <1>4, <2>2, <3>2 DEF From, Undefined
    <3>4. ReadOf(applied, t) = {l \in C : HeightOf(l) < 1 + m}
      BY <3>1, <3>2, <3>3 DEF ReadOf, C
    <3>. QED
      BY <1>4, <2>2, <3>4
  <2>. QED
    BY <2>1, <2>2
<1>9. ASSUME NEW u \in T, u # t
      PROVE  ReadOf(applied, u) = ReadOf(run, u)
  <2>1. Passed(applied.phase, u) <=> Passed(run.phase, u)
    BY <1>1, <1>5, <1>9 DEF Passed, SomeTopics
  <2>2. u = applied.phase => From(applied, u) = Base(applied, u)
    <3>1. applied.phase = u => applied.next = Undefined
      BY <1>5, <1>9
    <3>. QED
      BY <3>1 DEF From, Base
  <2>3. /\ applied.anchor = run.anchor
        /\ Base(applied, u) = Base(run, u)
        /\ u # run.phase
    BY <1>5, <1>6, <1>9
  <2>4. (IF u = applied.phase THEN From(applied, u) ELSE Base(applied, u))
           = (IF u = run.phase THEN From(run, u) ELSE Base(run, u))
    BY <2>2, <2>3
  <2>. QED
    BY <2>1, <2>3, <2>4, Zenon DEF ReadOf
<1>10. applied.folded = UNION {ReadOf(applied, u) : u \in T}
  <2>1. \A u \in T : ReadOf(applied, u) = ReadOf(run, u) \cup (IF u = t THEN page ELSE {})
    BY <1>7, <1>8, <1>9
  <2>2. applied.folded = (UNION {ReadOf(run, u) : u \in T}) \cup page
    BY <1>2, <1>5
  <2>. QED
    BY <2>1, <2>2
<1>11. applied.phase \in T \cup {"authenticate"}
  BY <1>1, <1>5 DEF SomeTopics
<1>12. applied.next \in Nat \cup {Undefined}
  BY <1>4, <1>5
<1>13. RunHolds(T, applied)
  <2>1. /\ applied.anchor = run.anchor
        /\ applied.baselines = run.baselines
    BY <1>5
  <2>2. applied = [phase |-> applied.phase, open |-> applied.open,
                   session |-> applied.session, anchor |-> applied.anchor,
                   folded |-> applied.folded,
                   baselines |-> applied.baselines, next |-> applied.next]
    BY <1>5
  <2>. QED
    BY <1>2, <1>10, <1>11, <1>12, <2>1, <2>2 DEF RunHolds, Reading
<1>. QED
  BY <1>5, <1>11, <1>13

\* A run that is opened has folded what its progress had, which is what its
\* scopes hold up to there.
LEMMA OpenedHolds ==
    ASSUME kind \in Kind, NEW T, T = Topics, NEW at, Standing(T, at),
           NEW resume, AtMostOne(resume),
           \A p \in resume : Proven(T, p) /\ Normal(p, at) /\ Bound(p),
           NEW run, run = Opened(at, resume)
    PROVE  /\ RunHolds(T, run)
           /\ run.phase \in T
           /\ run.session = effect
<1>1. /\ SomeTopics(T)
      /\ Phases[1] \in T
      /\ \A u \in T : ~ Passed(Phases[1], u)
  BY TopicsAre DEF SomeTopics, Passed
<1>2. run = [phase |-> Phases[1], open |-> TRUE, session |-> effect,
             anchor |-> at, folded |-> UNION {p.folded : p \in resume},
             baselines |-> {p.at : p \in resume}, next |-> Undefined]
  BY DEF Opened
<1>3. AtMostOne(run.baselines) /\ \A b \in run.baselines : Standing(T, b)
  <2>1. run.baselines = {p.at : p \in resume}
    BY <1>2
  <2>2. \A p \in resume : Standing(T, p.at)
    BY DEF Proven
  <2>. QED
    BY <2>1, <2>2 DEF AtMostOne
<1>4. ASSUME NEW u \in T
      PROVE  ReadOf(run, u) =
                {l \in Content(u, at[u]) : HeightOf(l) < Base(run, u)}
  <2>1. run.phase = Phases[1] /\ run.anchor = at /\ run.next = Undefined
    BY <1>2
  <2>2. From(run, u) = Base(run, u)
    BY <2>1 DEF From, Base
  <2>. QED
    BY <1>1, <2>1, <2>2 DEF ReadOf
<1>5. run.folded = UNION {ReadOf(run, u) : u \in T}
  <2>1. CASE resume = {}
    <3>1. run.folded = {} /\ run.baselines = {}
      BY <1>2, <2>1
    <3>2. ASSUME NEW u \in T  PROVE ReadOf(run, u) = {}
      <4>1. Base(run, u) = StartBlock
        BY <1>3, <3>1, BaseIs
      <4>2. \A l \in Content(u, at[u]) : ~ (HeightOf(l) < StartBlock)
        <5>. SUFFICES ASSUME NEW l \in Content(u, at[u])
                      PROVE  ~ (HeightOf(l) < StartBlock)
          OBVIOUS
        <5>. DEFINE cps == at[u].checkpoints
        <5>1. /\ cps # {} /\ l \in Log
              /\ HeightOf(l) \in StartBlock .. Height[Newest(cps)]
          BY DEF Content, Committed, LogsThrough, HeightOf
        <5>2. HeightOf(l) \in Nat /\ StartBlock \in Nat
          BY <5>1, HeightsAreNumbers, ReaderAssumption
        <5>3. Height[Newest(cps)] \in Nat
          BY <5>1, NewestIsLast, HeightsAreNumbers DEF Lineage, Standing
        <5>. QED
          BY <5>1, <5>2, <5>3
      <4>. QED
        BY <1>4, <4>1, <4>2
    <3>. QED
      BY <3>1, <3>2
  <2>2. CASE resume # {}
    <3>1. PICK p \in resume : resume = {p}
      BY <2>2 DEF AtMostOne
    <3>2. run.folded = p.folded /\ run.baselines = {p.at}
      BY <1>2, <3>1
    <3>3. /\ p.folded = Whole(p.at)
          /\ Standing(T, p.at)
          /\ \A u \in T : Extends(at[u], p.at[u])
      <4>1. Proven(T, p) /\ Normal(p, at) /\ Bound(p)
        BY <3>1
      <4>2. p.proof = [at |-> p.at, digest |-> Whole(p.at)] /\ Standing(T, p.at)
        BY <4>1 DEF Proven
      <4>3. p.digest = p.folded /\ \A u \in DOMAIN at : Extends(at[u], p.at[u])
        BY <4>1 DEF Normal, Consistent
      <4>4. p.proof = [at |-> p.at, digest |-> p.digest]
        BY <4>1 DEF Bound
      <4>5. DOMAIN at = T
        BY DEF Standing
      <4>. QED
        BY <4>2, <4>3, <4>4, <4>5
    <3>4. p.folded = UNION {Content(u, p.at[u]) : u \in T}
      BY <3>3 DEF Whole, Standing
    <3>5. ASSUME NEW u \in T
          PROVE  ReadOf(run, u) = Content(u, p.at[u])
      <4>. DEFINE b == p.at[u]
                  n == NextAfter(StartBlock, b.checkpoints)
      <4>1. /\ Lineage(StartBlock, at[u].checkpoints)
            /\ Lineage(StartBlock, b.checkpoints)
            /\ b.checkpoints # {} => Newest(b.checkpoints) \in at[u].checkpoints
        BY <3>3 DEF Standing, Extends
      <4>2. /\ Content(u, b) = {l \in Content(u, at[u]) : HeightOf(l) < n}
            /\ n >= StartBlock
        <5>. HIDE DEF b
        <5>1. Content(u, b) = {l \in Content(u, at[u]) : HeightOf(l) < NextAfter(StartBlock, b.checkpoints)}
          BY <4>1, ContinuedHolds
        <5>2. n >= StartBlock
          BY <4>1, ContinuedHolds, Zenon
        <5>. QED
          BY <5>1, <5>2
      <4>3. Base(run, u) = n
        BY <1>3, <3>2, <4>2, BaseIs
      <4>. QED
        BY <1>4, <4>2, <4>3
    <3>. QED
      BY <3>2, <3>4, <3>5
  <2>. QED
    BY <2>1, <2>2
<1>6. /\ run.phase = Phases[1] /\ run.open = TRUE /\ run.session = effect
      /\ run.anchor = at /\ run.next = Undefined
  BY <1>2
<1>7. run = [phase |-> run.phase, open |-> run.open, session |-> run.session,
             anchor |-> run.anchor, folded |-> run.folded,
             baselines |-> run.baselines, next |-> run.next]
  BY <1>2
<1>. QED
  BY <1>1, <1>3, <1>5, <1>6, <1>7 DEF RunHolds, Reading

-----------------------------------------------------------------------------
(* The hook, its calls and its runs.                                        *)

\* The awaits of calls that refer to a run.
Awaited == {"scan", "save", "baselines", "issued", "again", "confirm", "bind",
            "bindReposts"}

\* The awaits of calls that have an anchor.
Opening == {"posts", "load", "unload", "discard", "open"}

CallHolds(T, call) ==
    /\ call = [doing |-> call.doing, run |-> call.run, anchor |-> call.anchor,
               resume |-> call.resume]
    /\ call.doing \in {"nothing", "synchronize", "reset", "forget"}
                          \cup Opening \cup Awaited
    /\ call.doing = "nothing" => call = Quiet
    /\ call.doing \in Awaited => call.run \in RunSlot
    /\ call.doing \notin Awaited => call.run = NoRun
    /\ call.doing \in Opening => Standing(T, call.anchor)
    /\ \A p \in call.resume : Proven(T, p)
    /\ AtMostOne(call.resume)

CallsHold(T) ==
    /\ calls = [c \in CallSlot |-> calls[c]]
    /\ \A c \in CallSlot :
          /\ CallHolds(T, calls[c])
          /\ calls[c].doing = "posts" => kind = "comments"

RunsHold(T) ==
    /\ runs = [r \in RunSlot |-> runs[r]]
    /\ \A r \in RunSlot : RunHolds(T, runs[r])

\* The run of a superseded call is over and held no more, and no run is that
\* of two calls.  A call saves the progress of its own run.
Referred ==
    \A c \in CallSlot : calls[c].run # NoRun =>
        /\ c # current =>
              /\ held # calls[c].run
              /\ runs[calls[c].run].phase \in {"closed", "failed", "complete"}
        /\ calls[c].doing = "save" =>
              /\ runs[calls[c].run].phase = "complete"
              /\ calls[c].resume = {Progress(runs[calls[c].run])}
        /\ \A d \in CallSlot : calls[c].run = calls[d].run => c = d

\* The page is busy while its newest call waits, for the run it holds if for
\* any.  It holds a run it can go on with or show, and no other run is open.
Holding(T) ==
    /\ held \in RunSlot \cup {NoRun}
    /\ current \in CallSlot \cup {NoCall}
    /\ busy \in BOOLEAN
    /\ busy <=> current # NoCall
    /\ current # NoCall => /\ calls[current].doing # "nothing"
                           /\ calls[current].run = held
    /\ held # NoRun => /\ runs[held].phase \in Reading(T)
                       /\ runs[held].session = effect
    /\ \A r \in RunSlot : runs[r].open => r = held

\* What is shown is of this session, and true.
ShownHolds(T) ==
    /\ AtMostOne(shown)
    /\ \A s \in shown :
          /\ s.session = effect
          /\ s.phase = "complete" =>
                /\ current = NoCall
                /\ s.content = Whole(s.through)
                /\ kind = "profiles" => held = NoRun
                /\ kind # "profiles" =>
                      /\ held # NoRun
                      /\ runs[held].phase = "complete"
                      /\ runs[held].anchor = s.through
          /\ s.phase = "projecting" /\ current = NoCall =>
                /\ held # NoRun
                /\ runs[held].phase \in T \cup {"authenticate"}

HookHolds(T) ==
    /\ CallsHold(T)
    /\ RunsHold(T)
    /\ Referred
    /\ Holding(T)
    /\ ShownHolds(T)

\* Names are not the absence of a name.
LEMMA NamesAreNumbers ==
    NoCall \notin CallSlot /\ NoRun \notin RunSlot
  BY ReaderAssumption DEF NoCall, NoRun

\* A call that waits for nothing.
LEMMA QuietHolds ==
    ASSUME NEW T
    PROVE  CallHolds(T, Quiet) /\ Quiet.run = NoRun /\ Quiet.doing = "nothing"
  BY DEF CallHolds, Quiet, AtMostOne, Opening, Awaited

\* One call changes.
LEMMA CallsStay ==
    ASSUME NEW T, CallsHold(T), NEW c \in CallSlot, NEW call,
           CallHolds(T, call), call.doing = "posts" => kind = "comments",
           calls' = [calls EXCEPT ![c] = call], kind' = kind
    PROVE  /\ CallsHold(T)'
           /\ calls'[c] = call
           /\ \A d \in CallSlot : d # c => calls'[d] = calls[d]
<1>1. \A d \in CallSlot : calls'[d] = IF d = c THEN call ELSE calls[d]
  BY DEF CallsHold
<1>2. calls' = [d \in CallSlot |-> calls'[d]]
  BY DEF CallsHold
<1>3. \A d \in CallSlot : CallHolds(T, calls'[d])
  BY <1>1 DEF CallsHold
<1>4. \A d \in CallSlot : calls'[d].doing = "posts" => kind' = "comments"
  BY <1>1 DEF CallsHold
<1>. QED
  BY <1>1, <1>2, <1>3, <1>4 DEF CallsHold

\* One run changes.
LEMMA RunsStay ==
    ASSUME NEW T, RunsHold(T), NEW r \in RunSlot, NEW run,
           RunHolds(T, run), runs' = [runs EXCEPT ![r] = run]
    PROVE  /\ RunsHold(T)'
           /\ runs'[r] = run
           /\ \A s \in RunSlot : s # r => runs'[s] = runs[s]
<1>1. \A s \in RunSlot : runs'[s] = IF s = r THEN run ELSE runs[s]
  BY DEF RunsHold
<1>2. runs' = [s \in RunSlot |-> runs'[s]]
  BY DEF RunsHold
<1>3. \A s \in RunSlot : RunHolds(T, runs'[s])
  BY <1>1 DEF RunsHold
<1>. QED
  BY <1>1, <1>2, <1>3 DEF RunsHold

\* Nothing the hook knows of changes.
LEMMA HookStays ==
    ASSUME NEW T, HookHolds(T), UNCHANGED <<hook, calls, runs, effect, kind>>
    PROVE  HookHolds(T)'
  BY DEF HookHolds, CallsHold, RunsHold, Referred, Holding, ShownHolds, hook,
         Progress

\* A state that is not of a history is shown.
LEMMA StateIsShown ==
    ASSUME NEW T, NEW phase, phase \notin {"projecting", "complete"},
           Shows(phase), effect' = effect
    PROVE  ShownHolds(T)'
<1>. DEFINE s == [phase |-> phase, session |-> effect, through |-> <<>>,
                  content |-> {}]
<1>1. s.session = effect /\ s.phase = phase
  OBVIOUS
<1>2. shown' = {s}
  BY DEF Shows
<1>. HIDE DEF s
<1>. QED
  BY <1>1, <1>2 DEF ShownHolds, AtMostOne

\* A call ends that refers to no run.
LEMMA Quits ==
    ASSUME NEW T, HookHolds(T), NEW c \in CallSlot, calls[c].run = NoRun,
           Ends(c), UNCHANGED <<held, runs, effect, kind>>,
           \/ Superseded(c) /\ UNCHANGED shown
           \/ ~ Superseded(c) /\ Shows("failed")
           \/ ~ Superseded(c) /\ Shows("catchup")
    PROVE  HookHolds(T)'
<1>1. /\ calls' = [calls EXCEPT ![c] = Quiet]
      /\ busy' = (busy /\ current # c)
      /\ current' = IF current = c THEN NoCall ELSE current
  BY DEF Ends
<1>2. /\ CallsHold(T)'
      /\ calls'[c] = Quiet
      /\ \A d \in CallSlot : d # c => calls'[d] = calls[d]
  BY <1>1, QuietHolds, CallsStay DEF HookHolds
<1>3. RunsHold(T)'
  BY DEF HookHolds, RunsHold
<1>4. Referred'
  BY <1>1, <1>2, QuietHolds, NamesAreNumbers DEF HookHolds, Referred, Progress
<1>5. Holding(T)'
  BY <1>1, <1>2, NamesAreNumbers DEF HookHolds, Holding, Superseded
<1>6. ShownHolds(T)'
  <2>1. CASE Superseded(c) /\ UNCHANGED shown
    <3>1. current' = current
      BY <1>1, <2>1 DEF Superseded
    <3>. QED
      BY <2>1, <3>1 DEF HookHolds, ShownHolds
  <2>2. CASE Shows("failed") \/ Shows("catchup")
    <3>. QED
      BY <2>2, StateIsShown
  <2>. QED
    BY <2>1, <2>2
<1>. QED
  BY <1>2, <1>3, <1>4, <1>5, <1>6 DEF HookHolds

\* A call goes on that refers to no run.
LEMMA GoesOn ==
    ASSUME NEW T, HookHolds(T), NEW c \in CallSlot, calls[c].run = NoRun,
           NEW call, CallHolds(T, call), call.run = NoRun,
           call.doing # "nothing", call.doing = "posts" => kind = "comments",
           calls' = [calls EXCEPT ![c] = call],
           UNCHANGED <<held, busy, current, shown, runs, effect, kind>>
    PROVE  HookHolds(T)'
<1>2. /\ CallsHold(T)'
      /\ calls'[c] = call
      /\ \A d \in CallSlot : d # c => calls'[d] = calls[d]
  BY CallsStay DEF HookHolds
<1>3. RunsHold(T)'
  BY DEF HookHolds, RunsHold
<1>4. Referred'
  BY <1>2, NamesAreNumbers DEF HookHolds, Referred, Progress
<1>5. Holding(T)'
  BY <1>2, NamesAreNumbers DEF HookHolds, Holding
<1>6. ShownHolds(T)'
  BY DEF HookHolds, ShownHolds
<1>. QED
  BY <1>2, <1>3, <1>4, <1>5, <1>6 DEF HookHolds

\* What comes after an await is one of the awaits of the list.
LEMMA NextIs ==
    ASSUME NEW steps, NEW i \in 1 .. Len(steps) - 1,
           Len(steps) \in Nat
    PROVE  \E j \in 1 .. Len(steps) - 1 :
              /\ steps[j] = steps[i]
              /\ NextOf(steps, steps[i]) = steps[1 + j]
<1>. DEFINE j == CHOOSE n \in 1 .. Len(steps) - 1 : steps[n] = steps[i]
<1>1. j \in 1 .. Len(steps) - 1 /\ steps[j] = steps[i]
  OBVIOUS
<1>2. NextOf(steps, steps[i]) = steps[1 + j]
  BY DEF NextOf
<1>. HIDE DEF j
<1>. QED
  BY <1>1, <1>2

\* Loading: an anchor is followed by the posts of comments, or progress, or
\* a run.
LEMMA LoadingGoesOn ==
    ASSUME kind \in Kind
    PROVE  /\ AfterStep("synchronize") \in {"posts", "load", "open"}
           /\ AfterStep("synchronize") = "posts" => kind = "comments"
           /\ kind = "comments" => AfterStep("posts") \in {"load", "open"}
<1>1. /\ kind \in {"follows", "members", "profiles", "comments", "reactions"}
  BY ReaderAssumption
<1>2. CASE kind = "follows" \/ kind = "members"
  <2>1. Loading = <<"synchronize", "open">>
    BY <1>2 DEF Loading, FollowLoad, GroupMembershipLoad
  <2>2. NextOf(Loading, "synchronize") = "open"
    <3>1. 1 \in 1 .. Len(Loading) - 1 /\ Loading[1] = "synchronize" /\ Len(Loading) \in Nat
      BY <2>1
    <3>2. PICK j \in 1 .. Len(Loading) - 1 :
              NextOf(Loading, Loading[1]) = Loading[1 + j]
      BY <3>1, NextIs
    <3>3. j = 1
      BY <2>1, <3>2
    <3>. QED
      BY <2>1, <3>1, <3>2, <3>3
  <2>. QED
    BY <1>2, <2>2 DEF AfterStep
<1>3. CASE kind = "profiles" \/ kind = "reactions"
  <2>1. Loading = <<"synchronize", "load", "open">>
    BY <1>3 DEF Loading, ProfileLoad, PostReactionLoad
  <2>2. NextOf(Loading, "synchronize") = "load"
    <3>1. 1 \in 1 .. Len(Loading) - 1 /\ Loading[1] = "synchronize" /\ Len(Loading) \in Nat
      BY <2>1
    <3>2. PICK j \in 1 .. Len(Loading) - 1 :
              /\ Loading[j] = "synchronize"
              /\ NextOf(Loading, Loading[1]) = Loading[1 + j]
      BY <3>1, NextIs
    <3>3. j = 1
      BY <2>1, <3>2
    <3>. QED
      BY <2>1, <3>1, <3>2, <3>3
  <2>. QED
    BY <1>3, <2>2 DEF AfterStep
<1>4. CASE kind = "comments"
  <2>1. Loading = <<"synchronize", "posts", "load", "open">>
    BY <1>4 DEF Loading, PostCommentLoad
  <2>2. NextOf(Loading, "synchronize") = "posts"
    <3>1. 1 \in 1 .. Len(Loading) - 1 /\ Loading[1] = "synchronize" /\ Len(Loading) \in Nat
      BY <2>1
    <3>2. PICK j \in 1 .. Len(Loading) - 1 :
              /\ Loading[j] = "synchronize"
              /\ NextOf(Loading, Loading[1]) = Loading[1 + j]
      BY <3>1, NextIs
    <3>3. j = 1
      BY <2>1, <3>2
    <3>. QED
      BY <2>1, <3>1, <3>2, <3>3
  <2>3. NextOf(Loading, "posts") = "load"
    <3>1. 2 \in 1 .. Len(Loading) - 1 /\ Loading[2] = "posts" /\ Len(Loading) \in Nat
      BY <2>1
    <3>2. PICK j \in 1 .. Len(Loading) - 1 :
              /\ Loading[j] = "posts"
              /\ NextOf(Loading, Loading[2]) = Loading[1 + j]
      BY <3>1, NextIs
    <3>3. j = 2
      BY <2>1, <3>2
    <3>. QED
      BY <2>1, <3>1, <3>2, <3>3
  <2>. QED
    BY <1>4, <2>2, <2>3 DEF AfterStep
<1>. QED
  BY <1>1, <1>2, <1>3, <1>4

\* Authenticating: each await is one that refers to a run, but for the last
\* there is another.
LEMMA AuthenticationGoesOn ==
    ASSUME kind \in Kind
    PROVE  /\ Range(Authentication) \subseteq Awaited \ {"save", "scan"}
           /\ Authentication[1] = "baselines"
           /\ \A step \in Range(Authentication) \ {"confirm"} :
                 NextOf(Authentication, step) \in Awaited \ {"save", "scan"}
<1>1. /\ kind \in {"follows", "members", "profiles", "comments", "reactions"}
  BY ReaderAssumption
<1>. DEFINE Steps == Awaited \ {"save", "scan"}
<1>2. /\ Authentication = [i \in 1 .. Len(Authentication) |-> Authentication[i]]
      /\ Len(Authentication) \in Nat \ {0}
      /\ \A i \in 1 .. Len(Authentication) : Authentication[i] \in Steps
      /\ Authentication[1] = "baselines"
      /\ Authentication[Len(Authentication)] = "confirm"
  <2>1. CASE kind = "follows"
    <3>1. Authentication = <<"baselines", "issued", "again", "confirm">>
      BY <2>1 DEF Authentication, FollowAuthentication
    <3>. QED
      BY <3>1 DEF Awaited
  <2>2. CASE kind = "members"
    <3>1. Authentication = <<"baselines", "issued", "again", "confirm">>
      BY <2>2 DEF Authentication, GroupMembershipAuthentication
    <3>. QED
      BY <3>1 DEF Awaited
  <2>3. CASE kind = "profiles"
    <3>1. Authentication = <<"baselines", "issued", "bind", "confirm">>
      BY <2>3 DEF Authentication, ProfileAuthentication
    <3>. QED
      BY <3>1 DEF Awaited
  <2>4. CASE kind = "comments"
    <3>1. Authentication = <<"baselines", "issued", "bind", "again", "confirm">>
      BY <2>4 DEF Authentication, PostCommentAuthentication
    <3>. QED
      BY <3>1 DEF Awaited
  <2>5. CASE kind = "reactions"
    <3>1. Authentication = <<"baselines", "issued", "bind", "bindReposts", "again", "confirm">>
      BY <2>5 DEF Authentication, PostReactionAuthentication
    <3>. QED
      BY <3>1 DEF Awaited
  <2>. QED
    BY <1>1, <2>1, <2>2, <2>3, <2>4, <2>5
<1>. DEFINE A == Authentication
<1>. HIDE DEF A, Steps
<1>3. Range(A) \subseteq Steps
  BY <1>2 DEF Range, A
<1>4. ASSUME NEW step \in Range(A) \ {"confirm"}
      PROVE  NextOf(A, step) \in Steps
  <2>1. PICK i \in 1 .. Len(A) : A[i] = step
    BY <1>2, <1>4 DEF Range, A
  <2>2. i \in 1 .. Len(A) - 1
    BY <1>2, <1>4, <2>1 DEF A
  <2>3. PICK j \in 1 .. Len(A) - 1 : NextOf(A, A[i]) = A[1 + j]
    BY <1>2, <2>2, NextIs DEF A
  <2>4. 1 + j \in 1 .. Len(A)
    BY <1>2 DEF A
  <2>. QED
    BY <1>2, <2>1, <2>3, <2>4 DEF A
<1>. QED
  BY <1>2, <1>3, <1>4 DEF A, Steps

\* Advancing: a cache that is corrupt is reset, and then the progress saved
\* of it is forgotten; progress is saved of a run that is complete.
LEMMA AdvancingGoesOn ==
    ASSUME kind \in Kind
    PROVE  /\ Advancing.corrupt[1] = "reset"
           /\ Len(Advancing.corrupt) > 1 => Advancing.corrupt[2] = "forget"
           /\ Advancing.complete # <<>> => Advancing.complete[1] = "save"
           /\ Advancing.complete = <<>> <=> kind \in {"follows", "members"}
<1>1. /\ kind \in {"follows", "members", "profiles", "comments", "reactions"}
  BY ReaderAssumption
<1>2. CASE kind \in {"follows", "members"}
  <2>1. Advancing = [complete |-> <<>>, corrupt |-> <<"reset">>]
    BY <1>2 DEF Advancing, FollowAdvance, GroupMembershipAdvance
  <2>. QED
    BY <1>2, <2>1
<1>3. CASE kind \in {"profiles", "comments", "reactions"}
  <2>1. Advancing = [complete |-> <<"save">>, corrupt |-> <<"reset", "forget">>]
    BY <1>3 DEF Advancing, ProfileAdvance, PostCommentAdvance,
       PostReactionAdvance
  <2>. QED
    BY <1>3, <2>1
<1>. QED
  BY <1>1, <1>2, <1>3

-----------------------------------------------------------------------------
(* Loading.                                                                 *)

\* The chain, the scopes and the saved progress.
WorldHolds(T) ==
    /\ ChainTypeOK
    /\ kind \in Kind
    /\ Standing(T, scopes)
    /\ AtMostOne(store)
    /\ \A p \in store : Proven(T, p)

\* A call that is opening a run.
LEMMA OpeningHolds ==
    ASSUME NEW T, NEW call, NEW doing \in Opening, NEW at, Standing(T, at),
           NEW resume, AtMostOne(resume), \A p \in resume : Proven(T, p),
           call = [doing |-> doing, run |-> NoRun, anchor |-> at,
                   resume |-> resume]
    PROVE  /\ CallHolds(T, call)
           /\ call.run = NoRun
           /\ call.doing = doing
           /\ call.doing # "nothing"
  BY DEF CallHolds, Opening, Awaited

\* A call is a record, and has no run unless it waits for one.
LEMMA CallIs ==
    ASSUME NEW T, HookHolds(T), NEW c \in CallSlot
    PROVE  /\ calls[c] = [doing |-> calls[c].doing, run |-> calls[c].run,
                          anchor |-> calls[c].anchor,
                          resume |-> calls[c].resume]
           /\ calls[c].doing \notin Awaited => calls[c].run = NoRun
           /\ calls[c].doing \in Awaited => calls[c].run \in RunSlot
           /\ calls[c].doing \in Opening => Standing(T, calls[c].anchor)
           /\ AtMostOne(calls[c].resume)
           /\ \A p \in calls[c].resume : Proven(T, p)
           /\ calls[c].doing = "posts" => kind = "comments"
           /\ calls = [d \in CallSlot |-> calls[d]]
  BY DEF HookHolds, CallsHold, CallHolds

\* The call goes on with an await in which a run is opened.
LEMMA OpeningGoesOn ==
    ASSUME NEW T, HookHolds(T), NEW c \in CallSlot, calls[c].run = NoRun,
           NEW doing \in Opening, doing = "posts" => kind = "comments",
           NEW at, Standing(T, at), NEW resume, AtMostOne(resume),
           \A p \in resume : Proven(T, p),
           calls' = [calls EXCEPT ![c] = [doing |-> doing, run |-> NoRun,
                                          anchor |-> at, resume |-> resume]],
           UNCHANGED <<held, busy, current, shown, runs, effect, kind>>
    PROVE  HookHolds(T)'
<1>. DEFINE call == [doing |-> doing, run |-> NoRun, anchor |-> at,
                     resume |-> resume]
<1>1. /\ CallHolds(T, call) /\ call.run = NoRun
      /\ call.doing = doing /\ call.doing # "nothing"
  BY OpeningHolds
<1>2. calls' = [calls EXCEPT ![c] = call]
  OBVIOUS
<1>. HIDE DEF call
<1>. QED
  BY <1>1, <1>2, GoesOn

\* The call goes on with another await, and nothing else of it changes.
LEMMA AwaitsOpening ==
    ASSUME NEW T, HookHolds(T), NEW c \in CallSlot,
           calls[c].doing \in Opening, calls[c].run = NoRun,
           NEW doing \in Opening, doing # "posts", Awaits(c, doing),
           UNCHANGED <<held, busy, current, shown, runs, effect, kind>>
    PROVE  HookHolds(T)'
<1>. DEFINE at == calls[c].anchor
            resume == calls[c].resume
<1>1. /\ Standing(T, at) /\ AtMostOne(resume)
      /\ \A p \in resume : Proven(T, p)
  BY CallIs
<1>2. calls' = [calls EXCEPT ![c] = [doing |-> doing, run |-> NoRun,
                                     anchor |-> at, resume |-> resume]]
  <2>1. /\ calls[c] = [doing |-> calls[c].doing, run |-> calls[c].run,
                       anchor |-> calls[c].anchor, resume |-> calls[c].resume]
        /\ calls = [d \in CallSlot |-> calls[d]]
    BY CallIs
  <2>2. [calls[c] EXCEPT !.doing = doing]
            = [doing |-> doing, run |-> NoRun, anchor |-> at, resume |-> resume]
    BY <2>1
  <2>3. calls' = [calls EXCEPT ![c] = [calls[c] EXCEPT !.doing = doing]]
    BY <2>1 DEF Awaits
  <2>. QED
    BY <2>2, <2>3
<1>. HIDE DEF at, resume
<1>. QED
  BY <1>1, <1>2, OpeningGoesOn

\* synchronize keeps the hook in order.
LEMMA SynchronizedKeeps ==
    ASSUME NEW T, T = Topics, WorldHolds(T), HookHolds(T), NEW c \in CallSlot,
           Synchronized(c)
    PROVE  HookHolds(T)'
<1>1. calls[c].doing = "synchronize"
  BY DEF Synchronized
<1>2. calls[c].run = NoRun
  BY <1>1, CallIs DEF Awaited
<1>3. UNCHANGED <<effect, kind>>
  BY DEF Synchronized, world
<1>4. CASE GivesUp(c)
  BY <1>2, <1>3, <1>4, Quits DEF GivesUp
<1>5. CASE ShowsFailure(c) /\ UNCHANGED <<held, runs>>
  BY <1>2, <1>3, <1>5, Quits DEF ShowsFailure
<1>6. CASE /\ ~ Superseded(c) /\ Shows("catchup") /\ Ends(c)
           /\ UNCHANGED <<held, runs>>
  BY <1>2, <1>3, <1>6, Quits
<1>7. CASE /\ calls' = [calls EXCEPT ![c].anchor = scopes,
                                     ![c].doing = AfterStep("synchronize")]
           /\ UNCHANGED <<held, busy, current, shown, runs>>
  <2>. DEFINE doing == AfterStep("synchronize")
              resume == calls[c].resume
  <2>1. doing \in Opening /\ (doing = "posts" => kind = "comments")
    BY LoadingGoesOn DEF WorldHolds, Opening
  <2>2. Standing(T, scopes) /\ AtMostOne(resume) /\ \A p \in resume : Proven(T, p)
    BY CallIs DEF WorldHolds
  <2>. HIDE DEF doing
  <2>3. calls' = [calls EXCEPT ![c] = [doing |-> doing, run |-> NoRun,
                                       anchor |-> scopes, resume |-> resume]]
    <3>1. /\ calls[c] = [doing |-> calls[c].doing, run |-> calls[c].run,
                         anchor |-> calls[c].anchor, resume |-> calls[c].resume]
          /\ calls = [d \in CallSlot |-> calls[d]]
      BY CallIs
    <3>. DEFINE anchored == [doing |-> calls[c].doing, run |-> NoRun,
                             anchor |-> scopes, resume |-> resume]
    <3>4. [calls[c] EXCEPT !.anchor = scopes] = anchored
      BY <1>2, <3>1
    <3>5. [anchored EXCEPT !.doing = doing]
              = [doing |-> doing, run |-> NoRun, anchor |-> scopes, resume |-> resume]
      OBVIOUS
    <3>2. [[calls[c] EXCEPT !.anchor = scopes] EXCEPT !.doing = doing]
              = [doing |-> doing, run |-> NoRun, anchor |-> scopes, resume |-> resume]
      BY <3>4, <3>5, Zenon
    <3>3. calls' = [calls EXCEPT ![c] =
                      [[calls[c] EXCEPT !.anchor = scopes] EXCEPT !.doing = doing]]
      BY <1>7, <3>1 DEF doing
    <3>. QED
      BY <3>2, <3>3
  <2>. HIDE DEF resume
  <2>4. UNCHANGED <<held, busy, current, shown, runs, effect, kind>>
    BY <1>3, <1>7
  <2>. QED
    BY <1>2, <2>1, <2>2, <2>3, <2>4, OpeningGoesOn
<1>. QED
  BY <1>4, <1>5, <1>6, <1>7 DEF Synchronized

\* synchronizePosts keeps the hook in order.
LEMMA PostsReadKeeps ==
    ASSUME NEW T, T = Topics, WorldHolds(T), HookHolds(T), NEW c \in CallSlot,
           PostsRead(c)
    PROVE  HookHolds(T)'
<1>1. calls[c].doing = "posts"
  BY DEF PostsRead
<1>2. calls[c].run = NoRun
  BY <1>1, CallIs DEF Awaited
<1>3. UNCHANGED <<effect, kind>>
  BY DEF PostsRead, world
<1>4. CASE GivesUp(c)
  BY <1>2, <1>3, <1>4, Quits DEF GivesUp
<1>5. CASE ShowsFailure(c) /\ UNCHANGED <<held, runs>>
  BY <1>2, <1>3, <1>5, Quits DEF ShowsFailure
<1>6. CASE /\ Awaits(c, AfterStep("posts"))
           /\ UNCHANGED <<held, busy, current, shown, runs>>
  <2>. DEFINE doing == AfterStep("posts")
  <2>1. doing \in Opening /\ doing # "posts"
    BY <1>1, CallIs, LoadingGoesOn DEF WorldHolds, Opening
  <2>. HIDE DEF doing
  <2>2. Awaits(c, doing)
    BY <1>6 DEF doing
  <2>. QED
    BY <1>1, <1>2, <1>3, <1>6, <2>1, <2>2, AwaitsOpening DEF Opening
<1>. QED
  BY <1>4, <1>5, <1>6 DEF PostsRead

\* What becomes of a call that is given other progress.
LEMMA ResumedCall ==
    ASSUME NEW T, HookHolds(T), NEW c \in CallSlot, calls[c].run = NoRun,
           NEW resume,
           calls' = [calls EXCEPT ![c].resume = resume, ![c].doing = "open"]
    PROVE  calls' = [calls EXCEPT ![c] =
                        [doing |-> "open", run |-> NoRun,
                         anchor |-> calls[c].anchor, resume |-> resume]]
<1>. DEFINE resumed == [doing |-> calls[c].doing, run |-> NoRun,
                        anchor |-> calls[c].anchor, resume |-> resume]
            opening == [doing |-> "open", run |-> NoRun,
                        anchor |-> calls[c].anchor, resume |-> resume]
<1>1. /\ calls[c] = [doing |-> calls[c].doing, run |-> calls[c].run,
                     anchor |-> calls[c].anchor, resume |-> calls[c].resume]
      /\ calls = [d \in CallSlot |-> calls[d]]
  BY CallIs
<1>2. [calls[c] EXCEPT !.resume = resume] = resumed
  BY <1>1
<1>3. [resumed EXCEPT !.doing = "open"] = opening
  OBVIOUS
<1>4. calls' = [calls EXCEPT ![c] =
                  [[calls[c] EXCEPT !.resume = resume] EXCEPT !.doing = "open"]]
  BY <1>1
<1>. QED
  BY <1>2, <1>3, <1>4, Zenon

\* The call goes on to open a run, with other progress.
LEMMA ResumesOpening ==
    ASSUME NEW T, HookHolds(T), NEW c \in CallSlot,
           calls[c].doing \in Opening, calls[c].run = NoRun,
           NEW resume, AtMostOne(resume), \A p \in resume : Proven(T, p),
           calls' = [calls EXCEPT ![c] =
                        [doing |-> "open", run |-> NoRun,
                         anchor |-> calls[c].anchor, resume |-> resume]],
           UNCHANGED <<held, busy, current, shown, runs, effect, kind>>
    PROVE  HookHolds(T)'
<1>. DEFINE call == [doing |-> "open", run |-> NoRun,
                     anchor |-> calls[c].anchor, resume |-> resume]
<1>1. Standing(T, calls[c].anchor)
  BY CallIs
<1>2. CallHolds(T, call) /\ call.run = NoRun /\ call.doing = "open"
  BY <1>1 DEF CallHolds, Opening, Awaited
<1>3. calls' = [calls EXCEPT ![c] = call]
  OBVIOUS
<1>. HIDE DEF call
<1>. QED
  BY <1>2, <1>3, GoesOn

\* resumeStore.load: the progress is what the store has.
LEMMA ProgressLoadedKeeps ==
    ASSUME NEW T, WorldHolds(T), HookHolds(T), NEW c \in CallSlot,
           ProgressLoaded(c)
    PROVE  HookHolds(T)'
<1>1. calls[c].doing = "load"
  BY DEF ProgressLoaded
<1>2. calls[c].run = NoRun /\ calls[c].doing \in Opening
  BY <1>1, CallIs DEF Awaited, Opening
<1>3. UNCHANGED <<effect, kind>>
  BY DEF ProgressLoaded, world
<1>4. CASE GivesUp(c)
  BY <1>2, <1>3, <1>4, Quits DEF GivesUp
<1>5. CASE /\ calls' = [calls EXCEPT ![c].resume = store, ![c].doing = "open"]
           /\ UNCHANGED <<held, busy, current, shown, runs>>
  <2>1. calls' = [calls EXCEPT ![c] =
                      [doing |-> "open", run |-> NoRun,
                       anchor |-> calls[c].anchor, resume |-> store]]
    BY <1>2, <1>5, ResumedCall
  <2>2. AtMostOne(store) /\ \A p \in store : Proven(T, p)
    BY DEF WorldHolds
  <2>3. UNCHANGED <<held, busy, current, shown, runs, effect, kind>>
    BY <1>3, <1>5
  <2>. QED
    BY <1>2, <2>1, <2>2, <2>3, ResumesOpening
<1>6. CASE /\ Awaits(c, "unload")
           /\ UNCHANGED <<held, busy, current, shown, runs>>
  BY <1>2, <1>3, <1>6, AwaitsOpening DEF Opening
<1>. QED
  BY <1>4, <1>5, <1>6 DEF ProgressLoaded

\* resumeStore.remove: the run is opened without.
LEMMA ProgressRemovedKeeps ==
    ASSUME NEW T, WorldHolds(T), HookHolds(T), NEW c \in CallSlot,
           ProgressRemoved(c)
    PROVE  HookHolds(T)'
<1>1. calls[c].doing \in {"unload", "discard"}
  BY DEF ProgressRemoved
<1>2. calls[c].run = NoRun /\ calls[c].doing \in Opening
  BY <1>1, CallIs DEF Awaited, Opening
<1>3. UNCHANGED <<effect, kind>>
  BY DEF ProgressRemoved, world
<1>4. CASE GivesUp(c)
  BY <1>2, <1>3, <1>4, Quits DEF GivesUp
<1>5. CASE /\ calls' = [calls EXCEPT ![c].resume = {}, ![c].doing = "open"]
           /\ UNCHANGED <<held, busy, current, shown, runs>>
  <2>. DEFINE none == {}
  <2>1. AtMostOne(none) /\ \A p \in none : Proven(T, p)
    BY DEF AtMostOne
  <2>2. calls' = [calls EXCEPT ![c].resume = none, ![c].doing = "open"]
    BY <1>5
  <2>3. UNCHANGED <<held, busy, current, shown, runs, effect, kind>>
    BY <1>3, <1>5
  <2>. HIDE DEF none
  <2>4. calls' = [calls EXCEPT ![c] =
                      [doing |-> "open", run |-> NoRun,
                       anchor |-> calls[c].anchor, resume |-> none]]
    BY <1>2, <2>2, ResumedCall
  <2>. QED
    BY <1>2, <2>1, <2>3, <2>4, ResumesOpening
<1>. QED
  BY <1>4, <1>5 DEF ProgressRemoved

\* resetCache: the progress is forgotten next, if there can be any.
LEMMA CacheResetKeeps ==
    ASSUME NEW T, WorldHolds(T), HookHolds(T), NEW c \in CallSlot,
           CacheReset(c)
    PROVE  HookHolds(T)'
<1>1. calls[c].doing = "reset"
  BY DEF CacheReset
<1>2. calls[c].run = NoRun
  BY <1>1, CallIs DEF Awaited
<1>3. UNCHANGED <<effect, kind>>
  BY DEF CacheReset, world
<1>4. CASE GivesUp(c)
  BY <1>2, <1>3, <1>4, Quits DEF GivesUp
<1>5. CASE /\ Len(Advancing.corrupt) > 1
           /\ Awaits(c, Advancing.corrupt[2])
           /\ UNCHANGED <<held, busy, current, shown, runs>>
  <2>. DEFINE call == [doing |-> "forget", run |-> NoRun,
                       anchor |-> calls[c].anchor, resume |-> calls[c].resume]
  <2>1. Awaits(c, "forget")
    BY <1>5, AdvancingGoesOn DEF WorldHolds
  <2>2. calls' = [calls EXCEPT ![c] = call]
    <3>1. /\ calls[c] = [doing |-> calls[c].doing, run |-> calls[c].run,
                         anchor |-> calls[c].anchor, resume |-> calls[c].resume]
          /\ calls = [d \in CallSlot |-> calls[d]]
      BY CallIs
    <3>2. [calls[c] EXCEPT !.doing = "forget"] = call
      BY <1>2, <3>1
    <3>3. calls' = [calls EXCEPT ![c] = [calls[c] EXCEPT !.doing = "forget"]]
      BY <2>1, <3>1 DEF Awaits
    <3>. QED
      BY <3>2, <3>3
  <2>3. CallHolds(T, call) /\ call.run = NoRun /\ call.doing = "forget"
    <3>1. AtMostOne(calls[c].resume) /\ \A p \in calls[c].resume : Proven(T, p)
      BY CallIs
    <3>. QED
      BY <3>1 DEF CallHolds, Opening, Awaited
  <2>. HIDE DEF call
  <2>. QED
    BY <1>2, <1>3, <1>5, <2>2, <2>3, GoesOn
<1>6. CASE ShowsFailure(c) /\ UNCHANGED <<held, runs>>
  BY <1>2, <1>3, <1>6, Quits DEF ShowsFailure
<1>. QED
  BY <1>4, <1>5, <1>6 DEF CacheReset

\* The call ends with the progress forgotten.
LEMMA ProgressForgottenKeeps ==
    ASSUME NEW T, WorldHolds(T), HookHolds(T), NEW c \in CallSlot,
           ProgressForgotten(c)
    PROVE  HookHolds(T)'
<1>1. calls[c].doing = "forget"
  BY DEF ProgressForgotten
<1>2. calls[c].run = NoRun
  BY <1>1, CallIs DEF Awaited
<1>3. UNCHANGED <<effect, kind>>
  BY DEF ProgressForgotten, world
<1>4. CASE GivesUp(c)
  BY <1>2, <1>3, <1>4, Quits DEF GivesUp
<1>5. CASE ShowsFailure(c) /\ UNCHANGED <<held, runs>>
  BY <1>2, <1>3, <1>5, Quits DEF ShowsFailure
<1>. QED
  BY <1>4, <1>5 DEF ProgressForgotten

\* A run that is opened for the newest call is held.
LEMMA OpeningKeeps ==
    ASSUME NEW T, T = Topics, kind \in Kind, HookHolds(T), NEW c \in CallSlot,
           calls[c].doing = "open", ~ Superseded(c),
           \A p \in calls[c].resume : Normal(p, calls[c].anchor) /\ Bound(p),
           NEW r \in FreeRun, held' = r,
           runs' = [runs EXCEPT ![r] = Opened(calls[c].anchor, calls[c].resume)],
           Shows("projecting"), Ends(c), UNCHANGED <<effect, kind>>
    PROVE  HookHolds(T)'
<1>. DEFINE run == Opened(calls[c].anchor, calls[c].resume)
<1>1. r \in RunSlot /\ runs[r] = Unopened
  BY DEF FreeRun
<1>2. RunHolds(T, run) /\ run.phase \in T /\ run.session = effect
  <2>1. /\ Standing(T, calls[c].anchor) /\ AtMostOne(calls[c].resume)
        /\ \A p \in calls[c].resume : Proven(T, p)
    BY CallIs DEF Opening
  <2>. QED
    BY <2>1, OpenedHolds
<1>. HIDE DEF run
<1>3. /\ RunsHold(T)'
      /\ runs'[r] = run
      /\ \A s \in RunSlot : s # r => runs'[s] = runs[s]
  BY <1>1, <1>2, RunsStay DEF HookHolds, run
<1>4. /\ calls' = [calls EXCEPT ![c] = Quiet]
      /\ busy' = (busy /\ current # c)
      /\ current' = IF current = c THEN NoCall ELSE current
      /\ current = c
  BY DEF Ends, Superseded
<1>5. /\ CallsHold(T)'
      /\ calls'[c] = Quiet
      /\ \A d \in CallSlot : d # c => calls'[d] = calls[d]
  BY <1>4, QuietHolds, CallsStay DEF HookHolds
<1>6. calls[c].run = NoRun /\ held = NoRun
  BY <1>4, CallIs, NamesAreNumbers DEF HookHolds, Holding, Awaited
<1>7. \A d \in CallSlot : calls[d].run # NoRun =>
          /\ d # current /\ calls[d].run \in RunSlot /\ calls[d].run # r
  <2>. SUFFICES ASSUME NEW d \in CallSlot, calls[d].run # NoRun
                PROVE  /\ d # current /\ calls[d].run \in RunSlot
                       /\ calls[d].run # r
    OBVIOUS
  <2>1. d # current
    BY <1>4, <1>6
  <2>2. runs[calls[d].run].phase \in {"closed", "failed", "complete"}
    BY <2>1 DEF HookHolds, Referred
  <2>3. Unopened.phase = "unopened"
    BY DEF Unopened
  <2>4. calls[d].run \in RunSlot
    BY CallIs
  <2>. QED
    BY <1>1, <2>1, <2>2, <2>3, <2>4
<1>8. Referred'
  <2>. SUFFICES ASSUME NEW d \in CallSlot, calls'[d].run # NoRun
                PROVE  /\ held' # calls'[d].run
                       /\ runs'[calls'[d].run].phase
                              \in {"closed", "failed", "complete"}
                       /\ calls'[d].doing = "save" =>
                             /\ runs'[calls'[d].run].phase = "complete"
                             /\ calls'[d].resume = {Progress(runs'[calls'[d].run])}
                       /\ \A e \in CallSlot :
                             calls'[d].run = calls'[e].run => d = e
    BY DEF Referred, Progress
  <2>1. d # c /\ calls'[d] = calls[d]
    BY <1>5, QuietHolds
  <2>2. /\ d # current /\ calls[d].run \in RunSlot /\ calls[d].run # r
    BY <1>7, <2>1
  <2>3. runs'[calls'[d].run] = runs[calls[d].run]
    BY <1>3, <2>1, <2>2
  <2>4. \A e \in CallSlot : calls'[d].run = calls'[e].run => d = e
    BY <1>5, <2>1, QuietHolds DEF HookHolds, Referred
  <2>. QED
    BY <2>1, <2>2, <2>3, <2>4 DEF HookHolds, Referred
<1>9. Holding(T)'
  <2>1. /\ current' = NoCall /\ busy' = FALSE
    BY <1>4
  <2>2. held' \in RunSlot /\ runs'[held'] = run
    BY <1>1, <1>3
  <2>3. \A s \in RunSlot : runs'[s].open => s = r
    BY <1>3, <1>6, NamesAreNumbers DEF HookHolds, Holding
  <2>. QED
    BY <1>2, <2>1, <2>2, <2>3 DEF Holding, Reading
<1>10. ShownHolds(T)'
  <2>. DEFINE s == [phase |-> "projecting", session |-> effect,
                    through |-> <<>>, content |-> {}]
  <2>1. s.session = effect /\ s.phase = "projecting"
    OBVIOUS
  <2>2. shown' = {s}
    BY DEF Shows
  <2>3. held' # NoRun /\ runs'[held'].phase \in T
    BY <1>1, <1>2, <1>3, NamesAreNumbers
  <2>. HIDE DEF s
  <2>. QED
    BY <2>1, <2>2, <2>3 DEF ShownHolds, AtMostOne
<1>. QED
  BY <1>3, <1>5, <1>8, <1>9, <1>10 DEF HookHolds

\* openProjection: the run is held, or none was opened.
LEMMA RunOpenedKeeps ==
    ASSUME NEW T, T = Topics, WorldHolds(T), HookHolds(T), NEW c \in CallSlot,
           RunOpened(c)
    PROVE  HookHolds(T)'
<1>1. calls[c].doing = "open"
  BY DEF RunOpened
<1>2. calls[c].run = NoRun /\ calls[c].doing \in Opening
  BY <1>1, CallIs DEF Awaited, Opening
<1>3. UNCHANGED <<effect, kind>>
  BY DEF RunOpened, world
<1>4. CASE GivesUp(c)
  BY <1>2, <1>3, <1>4, Quits DEF GivesUp
<1>5. CASE ShowsFailure(c) /\ UNCHANGED <<held, runs>>
  BY <1>2, <1>3, <1>5, Quits DEF ShowsFailure
<1>6. CASE /\ Awaits(c, "discard")
           /\ UNCHANGED <<held, busy, current, shown, runs>>
  BY <1>2, <1>3, <1>6, AwaitsOpening DEF Opening
<1>7. CASE /\ \A p \in calls[c].resume :
                 Normal(p, calls[c].anchor) /\ Bound(p)
           /\ ~ Superseded(c)
           /\ \E r \in FreeRun :
                 /\ held' = r
                 /\ runs' = [runs EXCEPT ![r] =
                       Opened(calls[c].anchor, calls[c].resume)]
           /\ Shows("projecting")
           /\ Ends(c)
  BY <1>1, <1>3, <1>7, OpeningKeeps DEF WorldHolds
<1>. QED
  BY <1>4, <1>5, <1>6, <1>7 DEF RunOpened, ClosesOpened

-----------------------------------------------------------------------------
(* Runs that end.                                                           *)

\* A run that is not in use.
LEMMA UnopenedHolds ==
    ASSUME NEW T, SomeTopics(T)
    PROVE  /\ RunHolds(T, Unopened)
           /\ ~ Unopened.open
           /\ Unopened.phase = "unopened"
<1>1. Unopened = [phase |-> "unopened", open |-> FALSE,
                  session |-> Disconnected, anchor |-> <<>>, folded |-> {},
                  baselines |-> {}, next |-> Undefined]
  BY DEF Unopened
<1>2. "unopened" \notin Reading(T)
  BY DEF Reading, SomeTopics
<1>. QED
  BY <1>1, <1>2 DEF RunHolds

\* A run that ended forgot what it had folded.
LEMMA EndedIs ==
    ASSUME NEW T, SomeTopics(T), NEW run, NEW phase \in {"closed", "failed"}
    PROVE  /\ RunHolds(T, Ended(run, phase))
           /\ Ended(run, phase).open = FALSE
           /\ Ended(run, phase).phase = phase
<1>1. Ended(run, phase) =
          [phase |-> phase, open |-> FALSE, session |-> run.session,
           anchor |-> run.anchor, folded |-> {}, baselines |-> {},
           next |-> Undefined]
  <2>. DEFINE none == <<>>
              no == FALSE
              u == [phase |-> "unopened", open |-> no,
                    session |-> Disconnected, anchor |-> none, folded |-> {},
                    baselines |-> {}, next |-> Undefined]
              v == [phase |-> phase, open |-> no,
                    session |-> Disconnected, anchor |-> none, folded |-> {},
                    baselines |-> {}, next |-> Undefined]
              w == [phase |-> phase, open |-> no,
                    session |-> run.session, anchor |-> none, folded |-> {},
                    baselines |-> {}, next |-> Undefined]
              x == [phase |-> phase, open |-> no, session |-> run.session,
                    anchor |-> run.anchor, folded |-> {}, baselines |-> {},
                    next |-> Undefined]
  <2>1. Ended(run, phase) =
            [[[u EXCEPT !.phase = phase] EXCEPT !.session = run.session]
                EXCEPT !.anchor = run.anchor]
    BY DEF Ended, Unopened
  <2>. HIDE DEF no, none
  <2>2. [u EXCEPT !.phase = phase] = v
    OBVIOUS
  <2>3. [v EXCEPT !.session = run.session] = w
    OBVIOUS
  <2>4. [w EXCEPT !.anchor = run.anchor] = x
    OBVIOUS
  <2>5. Ended(run, phase) = x
    <3>. HIDE DEF u, v, w, x
    <3>. QED
      BY <2>1, <2>2, <2>3, <2>4, Zenon
  <2>. QED
    BY <2>5 DEF no, none
<1>2. phase \notin Reading(T)
  BY DEF Reading, SomeTopics
<1>. QED
  BY <1>1, <1>2 DEF RunHolds

\* A run that is closed is over, but stays complete if it was.
LEMMA ClosedIs ==
    ASSUME NEW T, SomeTopics(T), NEW run, RunHolds(T, run)
    PROVE  /\ RunHolds(T, ClosedRun(run))
           /\ ~ ClosedRun(run).open
           /\ Released(ClosedRun(run)) = Unopened
           /\ ClosedRun(run).phase \in {"closed", "complete", "failed"}
           /\ run.phase = "complete" =>
                 /\ ClosedRun(run).phase = "complete"
                 /\ Progress(ClosedRun(run)) = Progress(run)
<1>. DEFINE closed == ClosedRun(run)
<1>1. CASE run.phase \in {"complete", "failed"}
  <2>1. closed = [phase |-> run.phase, open |-> FALSE,
                  session |-> run.session, anchor |-> run.anchor,
                  folded |-> run.folded, baselines |-> run.baselines,
                  next |-> run.next]
    <3>1. closed = [run EXCEPT !.open = FALSE]
      BY <1>1 DEF ClosedRun
    <3>2. run = [phase |-> run.phase, open |-> run.open,
                 session |-> run.session, anchor |-> run.anchor,
                 folded |-> run.folded, baselines |-> run.baselines,
                 next |-> run.next]
      BY DEF RunHolds
    <3>. QED
      BY <3>1, <3>2
  <2>. HIDE DEF closed
  <2>2. /\ closed.phase = run.phase /\ closed.open = FALSE
        /\ closed.anchor = run.anchor /\ closed.folded = run.folded
        /\ closed.baselines = run.baselines /\ closed.next = run.next
    BY <2>1
  <2>3. \A t : ReadOf(closed, t) = ReadOf(run, t)
    BY <2>2 DEF ReadOf, From, Base
  <2>4. closed = [phase |-> closed.phase, open |-> closed.open,
                  session |-> closed.session, anchor |-> closed.anchor,
                  folded |-> closed.folded, baselines |-> closed.baselines,
                  next |-> closed.next]
    BY <2>1
  <2>5. RunHolds(T, closed)
    BY <2>2, <2>3, <2>4 DEF RunHolds
  <2>6. Progress(closed) = Progress(run)
    BY <2>2 DEF Progress
  <2>7. Released(closed) = Unopened
    BY <2>2 DEF Released
  <2>. QED
    BY <1>1, <2>2, <2>5, <2>6, <2>7 DEF closed
<1>2. CASE run.phase \notin {"complete", "failed"}
  <2>1. closed = Ended(run, "closed")
    BY <1>2 DEF ClosedRun
  <2>. HIDE DEF closed
  <2>2. /\ RunHolds(T, closed) /\ closed.open = FALSE
        /\ closed.phase = "closed"
    BY <2>1, EndedIs
  <2>3. Released(closed) = Unopened
    BY <2>2 DEF Released
  <2>. QED
    BY <1>2, <2>2, <2>3 DEF closed
<1>. QED
  BY <1>1, <1>2

\* A run that failed is over.
LEMMA FailedIs ==
    ASSUME NEW T, SomeTopics(T), NEW run, RunHolds(T, run)
    PROVE  /\ RunHolds(T, FailedRun(run))
           /\ Released(ClosedRun(FailedRun(run))) = Unopened
           /\ ~ run.open => Released(FailedRun(run)) = Unopened
<1>1. RunHolds(T, FailedRun(run))
  BY EndedIs DEF FailedRun
<1>2. ~ run.open => ~ FailedRun(run).open
  BY EndedIs DEF FailedRun
<1>. QED
  BY <1>1, <1>2, ClosedIs DEF Released

\* A run that is not held is not open.
LEMMA OnlyHeldIsOpen ==
    ASSUME NEW T, HookHolds(T), NEW r \in RunSlot, r # held
    PROVE  ~ runs[r].open /\ Released(runs[r]) = Unopened
  BY DEF HookHolds, Holding, Released

\* The hook lets go of the run it holds.
LEMMA HeldIsLetGo ==
    ASSUME NEW T, SomeTopics(T), HookHolds(T), runs' = WithoutHeld
    PROVE  /\ RunsHold(T)'
           /\ \A r \in RunSlot : r # held => runs'[r] = runs[r]
           /\ \A r \in RunSlot : ~ runs'[r].open
           /\ held # NoRun => runs' = [runs EXCEPT ![held] = Unopened]
<1>1. CASE held = NoRun
  <2>1. runs' = runs
    BY <1>1 DEF WithoutHeld
  <2>2. \A r \in RunSlot : r # held
    BY <1>1, NamesAreNumbers
  <2>3. RunsHold(T)'
    BY <2>1 DEF HookHolds, RunsHold
  <2>. QED
    BY <1>1, <2>1, <2>2, <2>3, OnlyHeldIsOpen
<1>2. CASE held # NoRun
  <2>1. held \in RunSlot
    BY <1>2 DEF HookHolds, Holding
  <2>2. Released(ClosedRun(runs[held])) = Unopened
    BY <2>1, ClosedIs DEF HookHolds, RunsHold
  <2>3. runs' = [runs EXCEPT ![held] = Released(ClosedRun(runs[held]))]
    BY <1>2 DEF WithoutHeld
  <2>4. runs' = [runs EXCEPT ![held] = Unopened]
    BY <2>2, <2>3
  <2>5. /\ RunsHold(T)'
        /\ runs'[held] = Unopened
        /\ \A r \in RunSlot : r # held => runs'[r] = runs[r]
    <3>1. RunHolds(T, Unopened)
      BY UnopenedHolds
    <3>. QED
      BY <2>1, <2>4, <3>1, RunsStay DEF HookHolds
  <2>6. \A r \in RunSlot : ~ runs'[r].open
    BY <2>5, UnopenedHolds, OnlyHeldIsOpen
  <2>. QED
    BY <1>2, <2>4, <2>5, <2>6
<1>. QED
  BY <1>1, <1>2

\* A call ends, or goes on, without its run, which is not referred to again.
LEMMA RunIsLetGo ==
    ASSUME NEW T, SomeTopics(T), HookHolds(T), NEW c \in CallSlot,
           calls[c].run # NoRun, NEW call, CallHolds(T, call),
           call.run = NoRun, call.doing # "posts",
           calls' = [calls EXCEPT ![c] = call],
           runs' = [runs EXCEPT ![calls[c].run] = Unopened], kind' = kind,
           current = c => current' \in {NoCall, c} /\ held' = NoRun,
           current # c => current' = current /\ held' = held
    PROVE  /\ CallsHold(T)' /\ RunsHold(T)' /\ Referred'
           /\ calls'[c] = call
           /\ \A d \in CallSlot : d # c => calls'[d] = calls[d]
           /\ \A r \in RunSlot : r # calls[c].run => runs'[r] = runs[r]
           /\ \A r \in RunSlot : runs'[r].open => current # c /\ r = held
<1>. DEFINE run == calls[c].run
<1>1. run \in RunSlot
  BY CallIs
<1>2. /\ RunsHold(T)'
      /\ runs'[run] = Unopened
      /\ \A r \in RunSlot : r # run => runs'[r] = runs[r]
  <2>1. RunHolds(T, Unopened)
    BY UnopenedHolds
  <2>. QED
    BY <1>1, <2>1, RunsStay DEF HookHolds
<1>3. /\ CallsHold(T)'
      /\ calls'[c] = call
      /\ \A d \in CallSlot : d # c => calls'[d] = calls[d]
  BY CallsStay DEF HookHolds
<1>4. \A r \in RunSlot : runs'[r].open => current # c /\ r = held
  <2>1. current = c => held = run
    BY NamesAreNumbers DEF HookHolds, Holding
  <2>. QED
    BY <1>2, <2>1, UnopenedHolds, OnlyHeldIsOpen
<1>5. Referred'
  <2>. SUFFICES ASSUME NEW d \in CallSlot, calls'[d].run # NoRun
                PROVE  /\ d # current' =>
                             /\ held' # calls'[d].run
                             /\ runs'[calls'[d].run].phase
                                    \in {"closed", "failed", "complete"}
                       /\ calls'[d].doing = "save" =>
                             /\ runs'[calls'[d].run].phase = "complete"
                             /\ calls'[d].resume = {Progress(runs'[calls'[d].run])}
                       /\ \A e \in CallSlot :
                             calls'[d].run = calls'[e].run => d = e
    BY DEF Referred, Progress
  <2>1. d # c /\ calls'[d] = calls[d]
    BY <1>3
  <2>2. calls[d].run # run /\ calls[d].run \in RunSlot
    BY <2>1, CallIs DEF HookHolds, Referred
  <2>3. runs'[calls'[d].run] = runs[calls[d].run]
    BY <1>2, <2>1, <2>2
  <2>4. d # current' => d # current /\ held' \in {NoRun, held}
    BY <2>1
  <2>5. \A e \in CallSlot : calls'[d].run = calls'[e].run => d = e
    BY <1>3, <2>1 DEF HookHolds, Referred
  <2>. QED
    BY <2>1, <2>2, <2>3, <2>4, <2>5 DEF HookHolds, Referred
<1>. QED
  BY <1>2, <1>3, <1>4, <1>5

-----------------------------------------------------------------------------
(* Calls that begin, and effects.                                           *)

\* A click on "load" lets go of the run that was held.
LEMMA LoadKeeps ==
    ASSUME NEW T, SomeTopics(T), HookHolds(T), NEW c \in CallSlot, Load(c)
    PROVE  HookHolds(T)'
<1>. DEFINE call == [Quiet EXCEPT !.doing = "synchronize"]
<1>1. /\ calls[c] = Quiet /\ busy = FALSE /\ current = NoCall
      /\ busy' = TRUE /\ current' = c /\ held' = NoRun
      /\ runs' = WithoutHeld /\ Shows("synchronizing")
      /\ calls' = [calls EXCEPT ![c] = call]
      /\ UNCHANGED <<effect, kind>>
  BY DEF Load, NextCall, HookHolds, Holding, world
<1>2. /\ RunsHold(T)'
      /\ \A r \in RunSlot : r # held => runs'[r] = runs[r]
      /\ \A r \in RunSlot : ~ runs'[r].open
  BY <1>1, HeldIsLetGo
<1>3. CallHolds(T, call) /\ call.run = NoRun /\ call.doing = "synchronize"
  <2>. DEFINE none == <<>>
              start == [doing |-> "nothing", run |-> NoRun, anchor |-> none,
                        resume |-> {}]
  <2>2. Quiet = start
    BY DEF Quiet
  <2>. HIDE DEF none
  <2>3. [start EXCEPT !.doing = "synchronize"]
            = [doing |-> "synchronize", run |-> NoRun, anchor |-> none,
               resume |-> {}]
    OBVIOUS
  <2>1. call = [doing |-> "synchronize", run |-> NoRun, anchor |-> none,
                resume |-> {}]
    BY <2>2, <2>3, Zenon
  <2>. HIDE DEF call
  <2>. QED
    <3>1. /\ call = [doing |-> call.doing, run |-> call.run,
                     anchor |-> call.anchor, resume |-> call.resume]
          /\ call.doing = "synchronize" /\ call.run = NoRun /\ call.resume = {}
      BY <2>1
    <3>. QED
      BY <3>1 DEF CallHolds, Opening, Awaited, AtMostOne
<1>. HIDE DEF call
<1>4. /\ CallsHold(T)'
      /\ calls'[c] = call
      /\ \A d \in CallSlot : d # c => calls'[d] = calls[d]
  BY <1>1, <1>3, CallsStay DEF HookHolds
<1>5. Referred'
  <2>. SUFFICES ASSUME NEW d \in CallSlot, calls'[d].run # NoRun
                PROVE  /\ held' # calls'[d].run
                       /\ runs'[calls'[d].run].phase
                              \in {"closed", "failed", "complete"}
                       /\ calls'[d].doing = "save" =>
                             /\ runs'[calls'[d].run].phase = "complete"
                             /\ calls'[d].resume = {Progress(runs'[calls'[d].run])}
                       /\ \A e \in CallSlot :
                             calls'[d].run = calls'[e].run => d = e
    BY DEF Referred, Progress
  <2>1. d # c /\ calls'[d] = calls[d]
    BY <1>3, <1>4
  <2>2. d # current
    BY <1>1, NamesAreNumbers
  <2>3. calls[d].run \in RunSlot /\ calls[d].run # held
    BY <2>1, <2>2, CallIs DEF HookHolds, Referred
  <2>4. runs'[calls'[d].run] = runs[calls[d].run]
    BY <1>2, <2>1, <2>3
  <2>5. \A e \in CallSlot : calls'[d].run = calls'[e].run => d = e
    BY <1>3, <1>4, <2>1 DEF HookHolds, Referred
  <2>. QED
    BY <1>1, <2>1, <2>2, <2>4, <2>5 DEF HookHolds, Referred
<1>6. Holding(T)'
  BY <1>1, <1>2, <1>3, <1>4, NamesAreNumbers DEF Holding
<1>7. ShownHolds(T)'
  BY <1>1, StateIsShown
<1>. QED
  BY <1>2, <1>4, <1>5, <1>6, <1>7 DEF HookHolds

\* A click on "advance" makes the run that is held that of a call.
LEMMA AdvanceKeeps ==
    ASSUME NEW T, kind \in Kind, HookHolds(T), NEW c \in CallSlot, Advance(c)
    PROVE  HookHolds(T)'
<1>. DEFINE doing == IF IsScanning(runs[held]) THEN "scan"
                     ELSE Authentication[1]
            call == [doing |-> doing, run |-> held, anchor |-> <<>>,
                     resume |-> {}]
<1>1. /\ calls[c] = Quiet /\ busy = FALSE /\ current = NoCall
      /\ held # NoRun /\ held \in RunSlot
      /\ busy' = TRUE /\ current' = c
      /\ calls' = [calls EXCEPT ![c] =
                      [Quiet EXCEPT !.doing = doing, !.run = held]]
      /\ UNCHANGED <<held, shown, runs, effect, kind>>
  BY DEF Advance, NextCall, HookHolds, Holding, world
<1>2. \E s \in shown : s.phase = "projecting"
  BY DEF Advance, Visible
<1>3. doing \in Awaited \ {"save"}
  BY AuthenticationGoesOn DEF Awaited
<1>. HIDE DEF doing
<1>4. calls' = [calls EXCEPT ![c] = call]
  <2>. DEFINE none == <<>>
              start == [doing |-> "nothing", run |-> NoRun, anchor |-> none,
                        resume |-> {}]
              one == [doing |-> doing, run |-> NoRun, anchor |-> none,
                      resume |-> {}]
              two == [doing |-> doing, run |-> held, anchor |-> none,
                      resume |-> {}]
  <2>1. Quiet = start /\ call = two
    BY DEF Quiet, call
  <2>2. [[Quiet EXCEPT !.doing = doing] EXCEPT !.run = held] = call
    <3>. HIDE DEF none
    <3>1. [start EXCEPT !.doing = doing] = one
      OBVIOUS
    <3>2. [one EXCEPT !.run = held] = two
      OBVIOUS
    <3>. QED
      BY <2>1, <3>1, <3>2, Zenon
  <2>3. calls' = [calls EXCEPT ![c] =
                     [[Quiet EXCEPT !.doing = doing] EXCEPT !.run = held]]
    BY <1>1
  <2>. QED
    BY <2>2, <2>3
<1>5. /\ CallHolds(T, call) /\ call.run = held
      /\ call.doing \notin {"nothing", "save", "posts"}
  <2>1. /\ call = [doing |-> call.doing, run |-> call.run,
                   anchor |-> call.anchor, resume |-> call.resume]
        /\ call.doing = doing /\ call.run = held /\ call.resume = {}
    OBVIOUS
  <2>. HIDE DEF call
  <2>. QED
    BY <1>1, <1>3, <2>1 DEF CallHolds, Opening, Awaited, AtMostOne
<1>. HIDE DEF call
<1>6. /\ CallsHold(T)'
      /\ calls'[c] = call
      /\ \A d \in CallSlot : d # c => calls'[d] = calls[d]
  BY <1>1, <1>4, <1>5, CallsStay DEF HookHolds
<1>7. \A d \in CallSlot : calls[d].run # held
  BY <1>1, NamesAreNumbers DEF HookHolds, Referred
<1>8. Referred'
  <2>. SUFFICES ASSUME NEW d \in CallSlot, calls'[d].run # NoRun
                PROVE  /\ d # current' =>
                             /\ held' # calls'[d].run
                             /\ runs'[calls'[d].run].phase
                                    \in {"closed", "failed", "complete"}
                       /\ calls'[d].doing = "save" =>
                             /\ runs'[calls'[d].run].phase = "complete"
                             /\ calls'[d].resume = {Progress(runs'[calls'[d].run])}
                       /\ \A e \in CallSlot :
                             calls'[d].run = calls'[e].run => d = e
    BY DEF Referred, Progress
  <2>1. CASE d = c
    BY <1>1, <1>5, <1>6, <1>7, <2>1
  <2>2. CASE d # c
    <3>1. calls'[d] = calls[d] /\ d # current /\ runs' = runs /\ held' = held
      BY <1>1, <1>6, <2>2, NamesAreNumbers
    <3>2. \A e \in CallSlot : calls'[d].run = calls'[e].run => d = e
      BY <1>5, <1>6, <1>7, <3>1 DEF HookHolds, Referred
    <3>. QED
      BY <3>1, <3>2 DEF HookHolds, Referred
  <2>. QED
    BY <2>1, <2>2
<1>9. Holding(T)'
  BY <1>1, <1>5, <1>6, NamesAreNumbers DEF HookHolds, Holding
<1>10. ShownHolds(T)'
  <2>1. \A s \in shown : s.phase = "projecting"
    BY <1>2 DEF HookHolds, ShownHolds, AtMostOne
  <2>. QED
    BY <1>1, <2>1, NamesAreNumbers DEF HookHolds, ShownHolds
<1>11. RunsHold(T)'
  BY <1>1 DEF HookHolds, RunsHold
<1>. QED
  BY <1>6, <1>8, <1>9, <1>10, <1>11 DEF HookHolds

\* Another wallet closes the run that was held, which its call finds closed.
LEMMA RunEffectKeeps ==
    ASSUME NEW T, SomeTopics(T), HookHolds(T), RunEffect
    PROVE  HookHolds(T)'
<1>1. /\ current' = NoCall /\ busy' = FALSE /\ held' = NoRun /\ shown' = {}
      /\ UNCHANGED <<kind, calls>>
  BY DEF RunEffect
<1>2. /\ RunsHold(T)'
      /\ \A r \in RunSlot : r # held => runs'[r] = runs[r]
      /\ \A r \in RunSlot : ~ runs'[r].open
      /\ \A c \in CallSlot : calls[c].run = held /\ held # NoRun =>
            /\ runs'[held].phase \in {"closed", "failed", "complete"}
            /\ runs[held].phase = "complete" =>
                  /\ runs'[held].phase = "complete"
                  /\ Progress(runs'[held]) = Progress(runs[held])
  <2>1. CASE \E c \in CallSlot : calls[c].run = held /\ held # NoRun
    <3>1. held \in RunSlot
      BY <2>1 DEF HookHolds, Holding
    <3>. DEFINE run == ClosedRun(runs[held])
    <3>2. runs' = [runs EXCEPT ![held] = run]
      BY <2>1 DEF RunEffect
    <3>3. /\ RunHolds(T, run) /\ ~ run.open
          /\ run.phase \in {"closed", "complete", "failed"}
          /\ runs[held].phase = "complete" =>
                run.phase = "complete" /\ Progress(run) = Progress(runs[held])
      BY <3>1, ClosedIs DEF HookHolds, RunsHold
    <3>. HIDE DEF run
    <3>4. /\ RunsHold(T)'
          /\ runs'[held] = run
          /\ \A r \in RunSlot : r # held => runs'[r] = runs[r]
      BY <3>1, <3>2, <3>3, RunsStay DEF HookHolds
    <3>5. \A r \in RunSlot : ~ runs'[r].open
      BY <3>3, <3>4, OnlyHeldIsOpen
    <3>. QED
      BY <3>3, <3>4, <3>5
  <2>2. CASE ~ \E c \in CallSlot : calls[c].run = held /\ held # NoRun
    <3>1. runs' = WithoutHeld
      BY <2>2 DEF RunEffect
    <3>. QED
      BY <2>2, <3>1, HeldIsLetGo
  <2>. QED
    BY <2>1, <2>2
<1>3. CallsHold(T)'
  BY <1>1 DEF HookHolds, CallsHold
<1>4. Referred'
  <2>. SUFFICES ASSUME NEW d \in CallSlot, calls[d].run # NoRun
                PROVE  /\ runs'[calls[d].run].phase
                              \in {"closed", "failed", "complete"}
                       /\ calls[d].doing = "save" =>
                             /\ runs'[calls[d].run].phase = "complete"
                             /\ calls[d].resume = {Progress(runs'[calls[d].run])}
                       /\ \A e \in CallSlot :
                             calls[d].run = calls[e].run => d = e
    BY <1>1 DEF Referred, Progress
  <2>1. calls[d].run \in RunSlot
    BY CallIs
  <2>2. \A e \in CallSlot : calls[d].run = calls[e].run => d = e
    BY DEF HookHolds, Referred
  <2>3. calls[d].doing = "save" =>
            /\ runs[calls[d].run].phase = "complete"
            /\ calls[d].resume = {Progress(runs[calls[d].run])}
    BY DEF HookHolds, Referred
  <2>4. CASE calls[d].run = held
    BY <1>2, <2>2, <2>3, <2>4
  <2>5. CASE calls[d].run # held
    <3>1. runs'[calls[d].run] = runs[calls[d].run]
      BY <1>2, <2>1, <2>5
    <3>2. d # current
      BY <2>5, NamesAreNumbers DEF HookHolds, Holding
    <3>. QED
      BY <2>2, <2>3, <3>1, <3>2 DEF HookHolds, Referred
  <2>. QED
    BY <2>4, <2>5
<1>5. Holding(T)'
  BY <1>1, <1>2 DEF Holding
<1>6. ShownHolds(T)'
  BY <1>1 DEF ShownHolds, AtMostOne
<1>. QED
  BY <1>2, <1>3, <1>4, <1>5, <1>6 DEF HookHolds

-----------------------------------------------------------------------------
(* Advancing.                                                               *)

\* The run of a superseded call is over, that of the newest call is held.
LEMMA RunIs ==
    ASSUME NEW T, HookHolds(T), NEW c \in CallSlot, calls[c].run # NoRun
    PROVE  /\ calls[c].run \in RunSlot
           /\ RunHolds(T, runs[calls[c].run])
           /\ current = c => /\ held = calls[c].run
                             /\ runs[held].phase \in Reading(T)
                             /\ runs[held].session = effect
           /\ current # c =>
                 /\ held # calls[c].run
                 /\ ~ runs[calls[c].run].open
                 /\ runs[calls[c].run].phase \in {"closed", "failed", "complete"}
<1>1. calls[c].run \in RunSlot
  BY CallIs
<1>2. current = c => /\ held = calls[c].run
                     /\ runs[held].phase \in Reading(T)
                     /\ runs[held].session = effect
  BY NamesAreNumbers DEF HookHolds, Holding
<1>3. current # c =>
          /\ held # calls[c].run
          /\ runs[calls[c].run].phase \in {"closed", "failed", "complete"}
  BY DEF HookHolds, Referred
<1>. QED
  BY <1>1, <1>2, <1>3, OnlyHeldIsOpen DEF HookHolds, RunsHold

\* A superseded call ends and its run is let go of.
LEMMA SupersededEnds ==
    ASSUME NEW T, SomeTopics(T), HookHolds(T), NEW c \in CallSlot,
           calls[c].run # NoRun, Superseded(c), Ends(c),
           runs' = [runs EXCEPT ![calls[c].run] = Unopened],
           UNCHANGED <<held, shown, effect, kind>>
    PROVE  HookHolds(T)'
<1>1. /\ calls' = [calls EXCEPT ![c] = Quiet]
      /\ current # c /\ current' = current /\ busy' = busy
  BY DEF Ends, Superseded, HookHolds, Holding
<1>2. /\ CallsHold(T)' /\ RunsHold(T)' /\ Referred'
      /\ calls'[c] = Quiet
      /\ \A d \in CallSlot : d # c => calls'[d] = calls[d]
      /\ \A r \in RunSlot : r # calls[c].run => runs'[r] = runs[r]
      /\ \A r \in RunSlot : runs'[r].open => r = held
  <2>1. CallHolds(T, Quiet) /\ Quiet.run = NoRun /\ Quiet.doing # "posts"
    BY QuietHolds
  <2>2. held' = held /\ kind' = kind /\ current # c /\ current' = current
    BY <1>1
  <2>. DEFINE call == Quiet
  <2>3. CallHolds(T, call) /\ call.run = NoRun /\ call.doing # "posts"
    BY <2>1
  <2>4. calls' = [calls EXCEPT ![c] = call]
    BY <1>1
  <2>. HIDE DEF call
  <2>5. /\ CallsHold(T)' /\ RunsHold(T)' /\ Referred'
        /\ calls'[c] = call
        /\ \A d \in CallSlot : d # c => calls'[d] = calls[d]
        /\ \A r \in RunSlot : r # calls[c].run => runs'[r] = runs[r]
        /\ \A r \in RunSlot : runs'[r].open => current # c /\ r = held
    BY <2>2, <2>3, <2>4, RunIsLetGo
  <2>. QED
    BY <2>5 DEF call
<1>3. held # NoRun => held \in RunSlot /\ runs'[held] = runs[held]
  BY <1>1, <1>2, RunIs DEF HookHolds, Holding
<1>4. Holding(T)'
  BY <1>1, <1>2, <1>3, NamesAreNumbers DEF HookHolds, Holding
<1>5. ShownHolds(T)'
  BY <1>1, <1>3 DEF HookHolds, ShownHolds
<1>. QED
  BY <1>2, <1>4, <1>5 DEF HookHolds

\* What comes after a corrupt cache refers to no run.
LEMMA ResettingHolds ==
    ASSUME NEW T, kind \in Kind,
           NEW call, call = [Quiet EXCEPT !.doing = Advancing.corrupt[1]]
    PROVE  /\ CallHolds(T, call)
           /\ call.run = NoRun
           /\ call.doing = "reset"
<1>. DEFINE none == <<>>
            start == [doing |-> "nothing", run |-> NoRun, anchor |-> none,
                      resume |-> {}]
            reset == [doing |-> "reset", run |-> NoRun, anchor |-> none,
                      resume |-> {}]
<1>1. Quiet = start
  BY DEF Quiet
<1>. HIDE DEF none
<1>2. [start EXCEPT !.doing = "reset"] = reset
  OBVIOUS
<1>3. call = reset
  BY <1>1, <1>2, AdvancingGoesOn
<1>4. reset.doing = "reset" /\ reset.run = NoRun /\ reset.anchor = none
          /\ reset.resume = {}
  BY Zenon
<1>. HIDE DEF start, reset
<1>5. /\ call = [doing |-> call.doing, run |-> call.run,
                 anchor |-> call.anchor, resume |-> call.resume]
      /\ call.doing = "reset" /\ call.run = NoRun /\ call.resume = {}
  BY <1>3, <1>4, Zenon DEF reset
<1>. QED
  BY <1>5 DEF CallHolds, Opening, Awaited, AtMostOne

\* advance() fails: nobody refers to its run any more.
LEMMA RunFailsKeeps ==
    ASSUME NEW T, SomeTopics(T), kind \in Kind, HookHolds(T),
           NEW c \in CallSlot, calls[c].run # NoRun,
           NEW corrupt, RunFails(c, corrupt), UNCHANGED <<effect, kind>>
    PROVE  HookHolds(T)'
<1>. DEFINE r == calls[c].run
<1>1. r \in RunSlot /\ RunHolds(T, runs[r])
  BY RunIs
<1>2. /\ Released(ClosedRun(FailedRun(runs[r]))) = Unopened
      /\ ~ runs[r].open => Released(FailedRun(runs[r])) = Unopened
  BY <1>1, FailedIs
<1>3. CASE Superseded(c)
  <2>1. /\ runs' = [runs EXCEPT ![r] = Released(FailedRun(runs[r]))]
        /\ Ends(c)
        /\ UNCHANGED <<held, shown>>
    BY <1>3 DEF RunFails
  <2>2. ~ runs[r].open
    BY <1>3, RunIs DEF Superseded
  <2>3. runs' = [runs EXCEPT ![r] = Unopened]
    BY <1>2, <2>1, <2>2
  <2>. QED
    BY <1>3, <2>1, <2>3, SupersededEnds
<1>4. CASE ~ Superseded(c)
  <2>1. /\ runs' = [runs EXCEPT ![r] =
                       Released(ClosedRun(FailedRun(runs[r])))]
        /\ held' = NoRun
        /\ IF corrupt
           THEN /\ calls' = [calls EXCEPT ![c] =
                       [Quiet EXCEPT !.doing = Advancing.corrupt[1]]]
                /\ UNCHANGED <<busy, current, shown>>
           ELSE ShowsFailure(c)
    BY <1>4 DEF RunFails
  <2>2. runs' = [runs EXCEPT ![r] = Unopened]
    BY <1>2, <2>1
  <2>3. current = c
    BY <1>4 DEF Superseded
  <2>4. CASE corrupt
    <3>. DEFINE call == [Quiet EXCEPT !.doing = Advancing.corrupt[1]]
    <3>1. /\ CallHolds(T, call) /\ call.run = NoRun
          /\ call.doing = "reset"
      BY ResettingHolds
    <3>2. /\ calls' = [calls EXCEPT ![c] = call]
          /\ UNCHANGED <<busy, current, shown>>
      BY <2>1, <2>4
    <3>. HIDE DEF call
    <3>3. /\ CallsHold(T)' /\ RunsHold(T)' /\ Referred'
          /\ calls'[c] = call
          /\ \A s \in RunSlot : ~ runs'[s].open
      BY <2>1, <2>2, <2>3, <3>1, <3>2, RunIsLetGo
    <3>4. Holding(T)'
      BY <2>1, <2>3, <3>1, <3>2, <3>3, NamesAreNumbers DEF HookHolds, Holding
    <3>5. ShownHolds(T)'
      BY <2>3, <3>2, NamesAreNumbers DEF HookHolds, ShownHolds
    <3>. QED
      BY <3>3, <3>4, <3>5 DEF HookHolds
  <2>5. CASE ~ corrupt
    <3>1. /\ Shows("failed")
          /\ calls' = [calls EXCEPT ![c] = Quiet]
          /\ current' = NoCall /\ busy' = FALSE
      BY <2>1, <2>3, <2>5 DEF ShowsFailure, Ends
    <3>2. CallHolds(T, Quiet) /\ Quiet.run = NoRun /\ Quiet.doing # "posts"
      BY QuietHolds
    <3>3. /\ CallsHold(T)' /\ RunsHold(T)' /\ Referred'
          /\ \A s \in RunSlot : ~ runs'[s].open
      BY <2>1, <2>2, <2>3, <3>1, <3>2, RunIsLetGo
    <3>4. Holding(T)'
      BY <2>1, <3>1, <3>3 DEF Holding
    <3>5. ShownHolds(T)'
      BY <3>1, StateIsShown
    <3>. QED
      BY <3>3, <3>4, <3>5 DEF HookHolds
  <2>. QED
    BY <2>4, <2>5
<1>. QED
  BY <1>3, <1>4

\* The newest call ends, and the run it advanced is still held.
LEMMA RunMoves ==
    ASSUME NEW T, SomeTopics(T), HookHolds(T), NEW c \in CallSlot,
           calls[c].run # NoRun, ~ Superseded(c), Ends(c),
           NEW run, RunHolds(T, run), run.phase \in Reading(T),
           run.session = effect,
           runs' = [runs EXCEPT ![calls[c].run] = run],
           UNCHANGED <<held, effect, kind>>
    PROVE  /\ CallsHold(T)' /\ RunsHold(T)' /\ Referred' /\ Holding(T)'
           /\ held' \in RunSlot /\ held' # NoRun
           /\ runs'[held'] = run
           /\ current' = NoCall
<1>. DEFINE r == calls[c].run
<1>1. /\ calls' = [calls EXCEPT ![c] = Quiet]
      /\ current = c /\ current' = NoCall /\ busy' = FALSE
  BY DEF Ends, Superseded
<1>2. r \in RunSlot /\ held = r
  BY <1>1, RunIs
<1>3. /\ RunsHold(T)'
      /\ runs'[r] = run
      /\ \A s \in RunSlot : s # r => runs'[s] = runs[s]
  BY <1>2, RunsStay DEF HookHolds
<1>4. /\ CallsHold(T)'
      /\ calls'[c] = Quiet
      /\ \A d \in CallSlot : d # c => calls'[d] = calls[d]
  BY <1>1, QuietHolds, CallsStay DEF HookHolds
<1>5. Referred'
  <2>. SUFFICES ASSUME NEW d \in CallSlot, calls'[d].run # NoRun
                PROVE  /\ held' # calls'[d].run
                       /\ runs'[calls'[d].run].phase
                              \in {"closed", "failed", "complete"}
                       /\ calls'[d].doing = "save" =>
                             /\ runs'[calls'[d].run].phase = "complete"
                             /\ calls'[d].resume = {Progress(runs'[calls'[d].run])}
                       /\ \A e \in CallSlot :
                             calls'[d].run = calls'[e].run => d = e
    BY DEF Referred, Progress
  <2>1. d # c /\ calls'[d] = calls[d]
    BY <1>4, QuietHolds
  <2>2. calls[d].run \in RunSlot /\ calls[d].run # r
    BY <1>1, <1>2, <2>1, RunIs
  <2>3. runs'[calls'[d].run] = runs[calls[d].run]
    BY <1>3, <2>1, <2>2
  <2>4. \A e \in CallSlot : calls'[d].run = calls'[e].run => d = e
    BY <1>4, <2>1, QuietHolds DEF HookHolds, Referred
  <2>. QED
    BY <1>1, <2>1, <2>3, <2>4 DEF HookHolds, Referred
<1>6. Holding(T)'
  <2>1. \A s \in RunSlot : runs'[s].open => s = r
    BY <1>2, <1>3, OnlyHeldIsOpen
  <2>. QED
    BY <1>1, <1>2, <1>3, <2>1 DEF Holding
<1>. QED
  BY <1>1, <1>2, <1>3, <1>4, <1>5, <1>6, NamesAreNumbers

\* A run that has read all of its scopes has folded what they hold.
LEMMA ReadRunIsWhole ==
    ASSUME NEW T, SomeTopics(T), NEW run, RunHolds(T, run),
           run.phase \in {"authenticate", "complete"}
    PROVE  /\ run.folded = Whole(run.anchor)
           /\ Standing(T, run.anchor)
           /\ Proven(T, Progress(run))
<1>1. /\ Standing(T, run.anchor)
      /\ run.folded = UNION {ReadOf(run, t) : t \in T}
  BY DEF RunHolds, Reading
<1>2. \A t \in T : ReadOf(run, t) = Content(t, run.anchor[t])
  BY DEF ReadOf, Passed
<1>3. DOMAIN run.anchor = T
  BY <1>1 DEF Standing
<1>4. run.folded = Whole(run.anchor)
  BY <1>1, <1>2, <1>3 DEF Whole
<1>5. Progress(run) = [at |-> run.anchor, folded |-> run.folded,
                       digest |-> run.folded,
                       proof |-> [at |-> run.anchor, digest |-> run.folded]]
  BY DEF Progress
<1>6. Proven(T, Progress(run))
  BY <1>1, <1>4, <1>5 DEF Proven
<1>. QED
  BY <1>1, <1>4, <1>6

\* A complete run stays what it was when it was authenticated.
LEMMA CompletedIs ==
    ASSUME NEW T, SomeTopics(T), NEW run, RunHolds(T, run),
           run.phase = "authenticate"
    PROVE  /\ RunHolds(T, Completed(run))
           /\ Completed(run).phase = "complete"
           /\ ~ Completed(run).open
           /\ Completed(run).session = run.session
           /\ Completed(run).anchor = run.anchor
           /\ Completed(run).folded = run.folded
           /\ Progress(Completed(run)) = Progress(run)
<1>. DEFINE no == FALSE
            first == [phase |-> "complete", open |-> run.open,
                      session |-> run.session, anchor |-> run.anchor,
                      folded |-> run.folded, baselines |-> run.baselines,
                      next |-> run.next]
            second == [phase |-> "complete", open |-> no,
                       session |-> run.session, anchor |-> run.anchor,
                       folded |-> run.folded, baselines |-> run.baselines,
                       next |-> run.next]
            done == Completed(run)
<1>1. run = [phase |-> run.phase, open |-> run.open, session |-> run.session,
             anchor |-> run.anchor, folded |-> run.folded,
             baselines |-> run.baselines, next |-> run.next]
  BY DEF RunHolds
<1>. HIDE DEF no
<1>2. [run EXCEPT !.phase = "complete"] = first
  BY <1>1
<1>3. [first EXCEPT !.open = no] = second
  OBVIOUS
<1>4. done = [[run EXCEPT !.phase = "complete"] EXCEPT !.open = no]
  BY DEF Completed, no
<1>5. done = second
  <2>. HIDE DEF first, second, done
  <2>. QED
    BY <1>2, <1>3, <1>4, Zenon
<1>. HIDE DEF done
<1>6. /\ done.phase = "complete" /\ done.open = no
      /\ done.session = run.session /\ done.anchor = run.anchor
      /\ done.folded = run.folded /\ done.baselines = run.baselines
      /\ done.next = run.next
      /\ done = [phase |-> done.phase, open |-> done.open,
                 session |-> done.session, anchor |-> done.anchor,
                 folded |-> done.folded, baselines |-> done.baselines,
                 next |-> done.next]
  BY <1>5
<1>7. \A t \in T : /\ ReadOf(done, t) = Content(t, run.anchor[t])
                   /\ ReadOf(run, t) = Content(t, run.anchor[t])
  BY <1>6 DEF ReadOf, Passed
<1>8. RunHolds(T, done)
  <2>1. run.phase \in Reading(T) /\ done.phase \in Reading(T)
    BY <1>6 DEF Reading
  <2>2. /\ Standing(T, done.anchor) /\ AtMostOne(done.baselines)
        /\ \A b \in done.baselines : Standing(T, b)
        /\ done.next \in Nat \cup {Undefined}
    BY <1>6, <2>1 DEF RunHolds
  <2>3. done.folded = UNION {ReadOf(done, t) : t \in T}
    <3>1. run.folded = UNION {ReadOf(run, t) : t \in T}
      BY <2>1 DEF RunHolds
    <3>. QED
      BY <1>6, <1>7, <3>1
  <2>. QED
    BY <1>6, <2>1, <2>2, <2>3 DEF RunHolds
<1>9. Progress(done) = Progress(run)
  BY <1>6 DEF Progress
<1>. QED
  BY <1>6, <1>8, <1>9 DEF done, no

\* A history is shown as complete, of the run that is held or of none.
LEMMA CompleteIsShown ==
    ASSUME NEW T, SomeTopics(T), NEW run, RunHolds(T, run),
           run.phase \in {"authenticate", "complete"}, ShowsComplete(run),
           current' = NoCall, UNCHANGED <<effect, kind>>,
           kind = "profiles" => held' = NoRun,
           kind # "profiles" => /\ held' # NoRun
                                /\ runs'[held'].phase = "complete"
                                /\ runs'[held'].anchor = run.anchor
    PROVE  ShownHolds(T)'
<1>. DEFINE s == [phase |-> "complete", session |-> effect,
                  through |-> run.anchor, content |-> run.folded]
<1>1. /\ s.phase = "complete" /\ s.session = effect
      /\ s.through = run.anchor /\ s.content = run.folded
  OBVIOUS
<1>2. shown' = {s}
  BY DEF ShowsComplete
<1>3. run.folded = Whole(run.anchor)
  BY ReadRunIsWhole
<1>. HIDE DEF s
<1>4. s.content = Whole(s.through)
  BY <1>1, <1>3
<1>. QED
  BY <1>1, <1>2, <1>4 DEF ShownHolds, AtMostOne

\* cache.scan: the run folds a page.
LEMMA PageScannedKeeps ==
    ASSUME NEW T, T = Topics, kind \in Kind, HookHolds(T), NEW c \in CallSlot,
           PageScanned(c)
    PROVE  HookHolds(T)'
<1>1. calls[c].doing = "scan" /\ UNCHANGED <<effect, kind>>
  BY DEF PageScanned, world
<1>2. calls[c].run \in RunSlot /\ calls[c].run # NoRun
  BY <1>1, CallIs, NamesAreNumbers DEF Awaited
<1>3. SomeTopics(T)
  BY TopicsAre
<1>4. CASE \E corrupt \in BOOLEAN : RunFails(c, corrupt)
  BY <1>1, <1>2, <1>3, <1>4, RunFailsKeeps
<1>5. CASE ~ \E corrupt \in BOOLEAN : RunFails(c, corrupt)
  <2>. DEFINE run == RunOf(c)
              t == run.phase
              applied == Applied(run, t, From(run, t))
  <2>1. /\ t \in T
        /\ scopes[t] = run.anchor[t]
        /\ runs' = [runs EXCEPT ![calls[c].run] = applied]
        /\ ~ Superseded(c) => Shows("projecting")
        /\ Ends(c)
        /\ UNCHANGED held
    BY <1>5 DEF PageScanned, IsScanning
  <2>2. RunHolds(T, run) /\ run = runs[calls[c].run]
    BY <1>2, RunIs DEF RunOf
  <2>. HIDE DEF run, applied
  <2>3. /\ RunHolds(T, applied)
        /\ applied.phase \in T \cup {"authenticate"}
        /\ applied.session = run.session
    <3>. HIDE DEF t
    <3>. QED
      BY <2>1, <2>2, AppliedHolds DEF t, applied
  <2>4. ~ Superseded(c)
    <3>1. t \notin {"closed", "failed", "complete"}
      BY <1>3, <2>1 DEF SomeTopics
    <3>. QED
      BY <1>2, <2>2, <3>1, RunIs DEF Superseded
  <2>5. applied.phase \in Reading(T) /\ applied.session = effect
    BY <1>2, <2>2, <2>3, <2>4, RunIs DEF Superseded, Reading
  <2>6. /\ CallsHold(T)' /\ RunsHold(T)' /\ Referred' /\ Holding(T)'
        /\ held' # NoRun
        /\ runs'[held'] = applied
        /\ current' = NoCall
    BY <1>1, <1>2, <1>3, <2>1, <2>3, <2>4, <2>5, RunMoves
  <2>7. ShownHolds(T)'
    <3>. DEFINE s == [phase |-> "projecting", session |-> effect,
                      through |-> <<>>, content |-> {}]
    <3>1. s.session = effect /\ s.phase = "projecting"
      OBVIOUS
    <3>2. shown' = {s}
      BY <2>1, <2>4 DEF Shows
    <3>. HIDE DEF s
    <3>. QED
      BY <1>1, <2>3, <2>6, <3>1, <3>2 DEF ShownHolds, AtMostOne
  <2>. QED
    BY <2>6, <2>7 DEF HookHolds
<1>. QED
  BY <1>4, <1>5

\* A call goes on to the next step of the authentication of its run.
LEMMA AuthenticationKeeps ==
    ASSUME NEW T, HookHolds(T), NEW c \in CallSlot,
           calls[c].doing \in Awaited,
           NEW doing \in Awaited \ {"save"}, Awaits(c, doing),
           UNCHANGED <<held, busy, current, shown, runs, effect, kind>>
    PROVE  HookHolds(T)'
<1>. DEFINE call == [doing |-> doing, run |-> calls[c].run,
                     anchor |-> calls[c].anchor, resume |-> calls[c].resume]
<1>1. calls' = [calls EXCEPT ![c] = call]
  <2>1. /\ calls[c] = [doing |-> calls[c].doing, run |-> calls[c].run,
                       anchor |-> calls[c].anchor, resume |-> calls[c].resume]
        /\ calls = [d \in CallSlot |-> calls[d]]
    BY CallIs
  <2>2. [calls[c] EXCEPT !.doing = doing] = call
    BY <2>1
  <2>3. calls' = [calls EXCEPT ![c] = [calls[c] EXCEPT !.doing = doing]]
    BY <2>1 DEF Awaits
  <2>. QED
    BY <2>2, <2>3
<1>2. calls[c].run \in RunSlot
  BY CallIs
<1>3. /\ CallHolds(T, call) /\ call.run = calls[c].run
      /\ call.doing \notin {"nothing", "save", "posts"}
  <2>1. AtMostOne(calls[c].resume) /\ \A p \in calls[c].resume : Proven(T, p)
    BY CallIs
  <2>. QED
    BY <1>2, <2>1 DEF CallHolds, Opening, Awaited
<1>. HIDE DEF call
<1>4. /\ CallsHold(T)'
      /\ calls'[c] = call
      /\ \A d \in CallSlot : d # c => calls'[d] = calls[d]
  BY <1>1, <1>3, CallsStay DEF HookHolds
<1>5. \A d \in CallSlot : calls'[d].run = calls[d].run
  BY <1>3, <1>4
<1>6. Referred'
  <2>. SUFFICES ASSUME NEW d \in CallSlot, calls'[d].run # NoRun
                PROVE  /\ d # current =>
                             /\ held # calls'[d].run
                             /\ runs[calls'[d].run].phase
                                    \in {"closed", "failed", "complete"}
                       /\ calls'[d].doing = "save" =>
                             /\ runs[calls'[d].run].phase = "complete"
                             /\ calls'[d].resume = {Progress(runs[calls'[d].run])}
                       /\ \A e \in CallSlot :
                             calls'[d].run = calls'[e].run => d = e
    BY DEF Referred, Progress
  <2>1. d # current =>
            /\ held # calls'[d].run
            /\ runs[calls'[d].run].phase \in {"closed", "failed", "complete"}
    BY <1>5 DEF HookHolds, Referred
  <2>2. \A e \in CallSlot : calls'[d].run = calls'[e].run => d = e
    BY <1>5 DEF HookHolds, Referred
  <2>3. calls'[d].doing = "save" => calls'[d] = calls[d]
    BY <1>3, <1>4
  <2>. QED
    BY <2>1, <2>2, <2>3 DEF HookHolds, Referred
<1>7. Holding(T)'
  <2>1. current # NoCall => calls'[current].doing # "nothing"
    BY <1>3, <1>4 DEF HookHolds, Holding
  <2>. QED
    BY <1>5, <2>1 DEF HookHolds, Holding
<1>8. RunsHold(T)' /\ ShownHolds(T)'
  BY DEF HookHolds, RunsHold, ShownHolds
<1>. QED
  BY <1>4, <1>6, <1>7, <1>8 DEF HookHolds

\* The run of the newest call is complete, and its progress is to be saved.
LEMMA SavingKeeps ==
    ASSUME NEW T, SomeTopics(T), HookHolds(T), NEW c \in CallSlot,
           calls[c].run # NoRun, ~ Superseded(c),
           runs[calls[c].run].phase = "authenticate",
           runs' = [runs EXCEPT ![calls[c].run] = Completed(runs[calls[c].run])],
           calls' = [calls EXCEPT ![c] =
                       [doing |-> "save", run |-> calls[c].run,
                        anchor |-> calls[c].anchor,
                        resume |-> {Progress(runs[calls[c].run])}]],
           UNCHANGED <<held, busy, current, shown, effect, kind>>
    PROVE  HookHolds(T)'
<1>. DEFINE r == calls[c].run
            run == runs[r]
            call == [doing |-> "save", run |-> r, anchor |-> calls[c].anchor,
                     resume |-> {Progress(run)}]
            done == Completed(run)
<1>1. /\ r \in RunSlot /\ RunHolds(T, run)
      /\ current = c /\ held = r /\ run.session = effect
  BY RunIs DEF Superseded
<1>2. /\ RunHolds(T, done) /\ done.phase = "complete" /\ ~ done.open
      /\ done.session = effect /\ Progress(done) = Progress(run)
  BY <1>1, CompletedIs
<1>3. Proven(T, Progress(run))
  BY <1>1, ReadRunIsWhole
<1>. HIDE DEF done
<1>4. /\ RunsHold(T)'
      /\ runs'[r] = done
      /\ \A s \in RunSlot : s # r => runs'[s] = runs[s]
  BY <1>1, <1>2, RunsStay DEF HookHolds, done
<1>5. /\ CallHolds(T, call) /\ call.run = r /\ call.doing = "save"
      /\ call.resume = {Progress(run)}
  <2>. DEFINE p == Progress(run)
  <2>. HIDE DEF p
  <2>1. AtMostOne({p}) /\ \A q \in {p} : Proven(T, q)
    BY <1>3 DEF AtMostOne, p
  <2>. QED
    BY <1>1, <2>1 DEF CallHolds, Opening, Awaited, p
<1>. HIDE DEF call
<1>6. calls' = [calls EXCEPT ![c] = call]
  BY DEF call
<1>7. /\ CallsHold(T)'
      /\ calls'[c] = call
      /\ \A d \in CallSlot : d # c => calls'[d] = calls[d]
  BY <1>5, <1>6, CallsStay DEF HookHolds
<1>8. \A d \in CallSlot : calls'[d].run = calls[d].run
  BY <1>5, <1>7
<1>9. Referred'
  <2>. SUFFICES ASSUME NEW d \in CallSlot, calls'[d].run # NoRun
                PROVE  /\ d # current =>
                             /\ held # calls'[d].run
                             /\ runs'[calls'[d].run].phase
                                    \in {"closed", "failed", "complete"}
                       /\ calls'[d].doing = "save" =>
                             /\ runs'[calls'[d].run].phase = "complete"
                             /\ calls'[d].resume = {Progress(runs'[calls'[d].run])}
                       /\ \A e \in CallSlot :
                             calls'[d].run = calls'[e].run => d = e
    BY DEF Referred, Progress
  <2>1. \A e \in CallSlot : calls'[d].run = calls'[e].run => d = e
    BY <1>8 DEF HookHolds, Referred
  <2>2. CASE d = c
    BY <1>1, <1>2, <1>4, <1>5, <1>7, <2>1, <2>2
  <2>3. CASE d # c
    <3>1. calls'[d] = calls[d] /\ d # current
      BY <1>1, <1>7, <2>3
    <3>2. calls[d].run \in RunSlot /\ calls[d].run # r
      BY <1>1, <3>1, RunIs
    <3>3. runs'[calls'[d].run] = runs[calls[d].run]
      BY <1>4, <3>1, <3>2
    <3>. QED
      BY <2>1, <3>1, <3>3 DEF HookHolds, Referred
  <2>. QED
    BY <2>2, <2>3
<1>10. Holding(T)'
  <2>1. current # NoCall => /\ calls'[current].doing # "nothing"
                            /\ calls'[current].run = held
    BY <1>1, <1>5, <1>7
  <2>2. \A s \in RunSlot : ~ runs'[s].open
    BY <1>1, <1>2, <1>4, OnlyHeldIsOpen
  <2>3. /\ runs'[held].phase \in Reading(T)
        /\ runs'[held].session = effect
    BY <1>1, <1>2, <1>4 DEF Reading
  <2>. QED
    BY <2>1, <2>2, <2>3 DEF HookHolds, Holding
<1>11. ShownHolds(T)'
  BY <1>1, NamesAreNumbers DEF HookHolds, ShownHolds
<1>. QED
  BY <1>4, <1>7, <1>9, <1>10, <1>11 DEF HookHolds

\* What becomes of a call that saves the progress of its run.
LEMMA SavingCall ==
    ASSUME NEW T, HookHolds(T), NEW c \in CallSlot, NEW resume,
           calls' = [calls EXCEPT ![c].doing = "save", ![c].resume = resume]
    PROVE  calls' = [calls EXCEPT ![c] =
                        [doing |-> "save", run |-> calls[c].run,
                         anchor |-> calls[c].anchor, resume |-> resume]]
<1>. DEFINE first == [doing |-> "save", run |-> calls[c].run,
                      anchor |-> calls[c].anchor, resume |-> calls[c].resume]
            second == [doing |-> "save", run |-> calls[c].run,
                       anchor |-> calls[c].anchor, resume |-> resume]
<1>1. /\ calls[c] = [doing |-> calls[c].doing, run |-> calls[c].run,
                     anchor |-> calls[c].anchor, resume |-> calls[c].resume]
      /\ calls = [d \in CallSlot |-> calls[d]]
  BY CallIs
<1>2. [calls[c] EXCEPT !.doing = "save"] = first
  BY <1>1
<1>3. [first EXCEPT !.resume = resume] = second
  OBVIOUS
<1>4. calls' = [calls EXCEPT ![c] =
                  [[calls[c] EXCEPT !.doing = "save"] EXCEPT !.resume = resume]]
  BY <1>1
<1>. QED
  BY <1>2, <1>3, <1>4, Zenon

\* authenticateBaseline: after its last step the run is complete.
LEMMA AuthenticatedKeeps ==
    ASSUME NEW T, T = Topics, kind \in Kind, HookHolds(T), NEW c \in CallSlot,
           Authenticated(c)
    PROVE  HookHolds(T)'
<1>. DEFINE step == calls[c].doing
            run == RunOf(c)
            checked == ReadsPhase(step) => run.phase = "authenticate"
<1>1. step \in Range(Authentication) /\ UNCHANGED <<effect, kind>>
  BY DEF Authenticated, world
<1>2. step \in Awaited \ {"save", "scan"}
  BY <1>1, AuthenticationGoesOn
<1>3. calls[c].run \in RunSlot /\ calls[c].run # NoRun
  BY <1>2, CallIs, NamesAreNumbers
<1>4. SomeTopics(T)
  BY TopicsAre
<1>5. CASE \E corrupt \in BOOLEAN : RunFails(c, corrupt)
  BY <1>1, <1>3, <1>4, <1>5, RunFailsKeeps
<1>6. CASE /\ ~ IsLast(step)
           /\ Awaits(c, NextOf(Authentication, step))
           /\ UNCHANGED <<runs, hook>>
  <2>. DEFINE doing == NextOf(Authentication, step)
  <2>1. doing \in Awaited \ {"save"}
    BY <1>1, <1>6, AuthenticationGoesOn DEF IsLast
  <2>2. Awaits(c, doing)
    BY <1>6
  <2>3. UNCHANGED <<held, busy, current, shown, runs, effect, kind>>
    BY <1>1, <1>6 DEF hook
  <2>. HIDE DEF doing
  <2>. QED
    BY <1>2, <2>1, <2>2, <2>3, AuthenticationKeeps
<1>7. CASE /\ checked
           /\ IsLast(step)
           /\ runs' = [runs EXCEPT ![calls[c].run] = Completed(run)]
           /\ \/ Superseded(c)
              \/ /\ ~ Superseded(c)
                 /\ Advancing.complete # <<>>
                 /\ calls' = [calls EXCEPT ![c].doing = Advancing.complete[1],
                                           ![c].resume = {Progress(run)}]
                 /\ UNCHANGED <<busy, current, shown>>
              \/ /\ ~ Superseded(c)
                 /\ Advancing.complete = <<>>
                 /\ ShowsComplete(run)
                 /\ Ends(c)
           /\ UNCHANGED held
  <2>1. run = runs[calls[c].run] /\ RunHolds(T, run)
    BY <1>3, RunIs DEF RunOf
  <2>2. run.phase = "authenticate"
    BY <1>7 DEF IsLast, ReadsPhase
  <2>3. ~ Superseded(c)
    BY <1>3, <2>1, <2>2, RunIs DEF Superseded
  <2>4. run.session = effect
    BY <1>3, <2>1, <2>3, RunIs DEF Superseded
  <2>5. CASE Advancing.complete # <<>>
    <3>1. /\ Advancing.complete[1] = "save"
          /\ UNCHANGED <<held, busy, current, shown, effect, kind>>
          /\ calls' = [calls EXCEPT ![c].doing = "save",
                                    ![c].resume = {Progress(run)}]
      BY <1>1, <1>7, <2>3, <2>5, AdvancingGoesOn
    <3>2. calls' = [calls EXCEPT ![c] =
                      [doing |-> "save", run |-> calls[c].run,
                       anchor |-> calls[c].anchor,
                       resume |-> {Progress(run)}]]
      BY <3>1, SavingCall
    <3>. QED
      BY <1>3, <1>4, <1>7, <2>1, <2>2, <2>3, <3>1, <3>2, SavingKeeps
  <2>6. CASE Advancing.complete = <<>>
    <3>1. ShowsComplete(run) /\ Ends(c)
      BY <1>7, <2>3, <2>6
    <3>. DEFINE done == Completed(run)
    <3>2. /\ RunHolds(T, done) /\ done.phase = "complete"
          /\ done.session = effect /\ done.anchor = run.anchor
          /\ done.phase \in Reading(T)
      BY <1>4, <2>1, <2>2, <2>4, CompletedIs DEF Reading
    <3>3. runs' = [runs EXCEPT ![calls[c].run] = done] /\ UNCHANGED <<held, effect, kind>>
      BY <1>1, <1>7
    <3>. HIDE DEF done, run
    <3>4. /\ CallsHold(T)' /\ RunsHold(T)' /\ Referred' /\ Holding(T)'
          /\ held' # NoRun
          /\ runs'[held'] = done
          /\ current' = NoCall
      BY <1>3, <1>4, <2>3, <3>1, <3>2, <3>3, RunMoves
    <3>5. kind # "profiles"
      BY <2>6, AdvancingGoesOn
    <3>6. ShownHolds(T)'
      BY <1>1, <1>4, <2>1, <2>2, <3>1, <3>2, <3>4, <3>5, CompleteIsShown
    <3>. QED
      BY <3>4, <3>6 DEF HookHolds
  <2>. QED
    BY <2>5, <2>6
<1>. QED
  BY <1>5, <1>6, <1>7 DEF Authenticated

\* resumeStore.save: the history is shown, and a profile's run is let go of.
LEMMA ProgressSavedKeeps ==
    ASSUME NEW T, SomeTopics(T), HookHolds(T), NEW c \in CallSlot,
           ProgressSaved(c)
    PROVE  HookHolds(T)'
<1>1. calls[c].doing = "save" /\ UNCHANGED <<effect, kind>>
  BY DEF ProgressSaved, world
<1>2. calls[c].run \in RunSlot /\ calls[c].run # NoRun
  BY <1>1, CallIs, NamesAreNumbers DEF Awaited
<1>3. Ends(c)
  BY DEF ProgressSaved
<1>. DEFINE r == calls[c].run
            run == runs[r]
<1>4. RunHolds(T, run) /\ run.phase = "complete"
  BY <1>1, <1>2, RunIs DEF HookHolds, Referred
<1>5. CASE Superseded(c)
  <2>1. /\ runs' = [runs EXCEPT ![r] = Released(run)]
        /\ UNCHANGED <<held, shown>>
    BY <1>5 DEF ProgressSaved
  <2>2. Released(run) = Unopened
    BY <1>2, <1>5, RunIs DEF Superseded, Released
  <2>3. runs' = [runs EXCEPT ![r] = Unopened]
    BY <2>1, <2>2
  <2>. QED
    BY <1>1, <1>2, <1>3, <1>5, <2>1, <2>3, SupersededEnds
<1>6. CASE ~ Superseded(c)
  <2>1. /\ current = c /\ held = r /\ run.session = effect
        /\ run.phase \in Reading(T)
    BY <1>2, <1>6, RunIs DEF Superseded
  <2>2. ShowsComplete(run)
    BY <1>6 DEF ProgressSaved, RunOf
  <2>3. CASE kind = "profiles"
    <3>1. runs' = WithoutHeld /\ held' = NoRun
      BY <1>6, <2>3 DEF ProgressSaved
    <3>2. runs' = [runs EXCEPT ![r] = Unopened]
      BY <1>2, <2>1, <3>1, HeldIsLetGo
    <3>3. /\ calls' = [calls EXCEPT ![c] = Quiet]
          /\ current' = NoCall /\ busy' = FALSE
      BY <1>3, <2>1 DEF Ends
    <3>4. CallHolds(T, Quiet) /\ Quiet.run = NoRun /\ Quiet.doing # "posts"
      BY QuietHolds
    <3>5. /\ CallsHold(T)' /\ RunsHold(T)' /\ Referred'
          /\ \A s \in RunSlot : ~ runs'[s].open
      BY <1>1, <1>2, <2>1, <3>1, <3>2, <3>3, <3>4, RunIsLetGo
    <3>6. Holding(T)'
      BY <3>1, <3>3, <3>5 DEF Holding
    <3>7. ShownHolds(T)'
      BY <1>1, <1>4, <2>2, <2>3, <3>1, <3>3, CompleteIsShown
    <3>. QED
      BY <3>5, <3>6, <3>7 DEF HookHolds
  <2>4. CASE kind # "profiles"
    <3>1. UNCHANGED <<runs, held>>
      BY <1>6, <2>4 DEF ProgressSaved
    <3>2. runs' = [runs EXCEPT ![r] = run]
      BY <1>2, <3>1 DEF HookHolds, RunsHold
    <3>3. UNCHANGED <<held, effect, kind>>
      BY <1>1, <3>1
    <3>4. run.session = effect /\ run.phase \in Reading(T) /\ RunHolds(T, run)
      BY <1>4, <2>1
    <3>. HIDE DEF run
    <3>5. /\ CallsHold(T)' /\ RunsHold(T)' /\ Referred' /\ Holding(T)'
          /\ held' # NoRun
          /\ runs'[held'] = run
          /\ current' = NoCall
      BY <1>2, <1>3, <1>6, <3>2, <3>3, <3>4, RunMoves
    <3>6. ShownHolds(T)'
      BY <1>1, <1>4, <2>2, <2>4, <3>5, CompleteIsShown
    <3>. QED
      BY <3>5, <3>6 DEF HookHolds
  <2>. QED
    BY <2>3, <2>4
<1>. QED
  BY <1>5, <1>6

-----------------------------------------------------------------------------
(* The invariant of a read model.                                           *)

\* The world, and the hook with its calls and its runs.
ReaderInv == \A T \in {Topics} : WorldHolds(T) /\ HookHolds(T)

\* A scope that was reset stands for nothing, as the empty lineage does.
LEMMA ResetsStand ==
    ASSUME NEW position, NEW reset \in ResetOf(position)
    PROVE  Lineage(StartBlock, reset.checkpoints)
<1>1. reset.checkpoints = {}
  BY DEF ResetOf, Position
<1>2. Lineage(StartBlock, {})
  BY EndsOfEmpty DEF Lineage, SameBranch
<1>. QED
  BY <1>1, <1>2

\* One scope moves to another position.
LEMMA ScopeMoves ==
    ASSUME NEW T, Standing(T, scopes), NEW t \in T, NEW position,
           Lineage(StartBlock, position.checkpoints),
           scopes' = [scopes EXCEPT ![t] = position]
    PROVE  Standing(T, scopes)'
<1>1. /\ scopes = [u \in T |-> scopes[u]]
      /\ \A u \in T : Lineage(StartBlock, scopes[u].checkpoints)
  BY DEF Standing
<1>2. /\ scopes' = [u \in T |-> scopes'[u]]
      /\ scopes'[t] = position
      /\ \A u \in T : u # t => scopes'[u] = scopes[u]
  BY <1>1
<1>3. \A u \in T : Lineage(StartBlock, scopes'[u].checkpoints)
  BY <1>1, <1>2
<1>. QED
  BY <1>2, <1>3 DEF Standing

\* Progress that goes bad keeps its proof.
LEMMA DamagedIsProven ==
    ASSUME NEW T, NEW p, Proven(T, p), NEW logs
    PROVE  /\ Proven(T, [p EXCEPT !.folded = logs])
           /\ Proven(T, [p EXCEPT !.folded = logs, !.digest = logs])
<1>1. p = [at |-> p.at, folded |-> p.folded, digest |-> p.digest,
           proof |-> p.proof]
  BY DEF Proven
<1>2. /\ [p EXCEPT !.folded = logs]
            = [at |-> p.at, folded |-> logs, digest |-> p.digest,
               proof |-> p.proof]
      /\ [p EXCEPT !.folded = logs, !.digest = logs]
            = [at |-> p.at, folded |-> logs, digest |-> logs,
               proof |-> p.proof]
  <2>. DEFINE once == [at |-> p.at, folded |-> logs, digest |-> p.digest,
                       proof |-> p.proof]
              twice == [at |-> p.at, folded |-> logs, digest |-> logs,
                        proof |-> p.proof]
  <2>1. [p EXCEPT !.folded = logs] = once
    BY <1>1
  <2>2. [once EXCEPT !.digest = logs] = twice
    OBVIOUS
  <2>3. [[p EXCEPT !.folded = logs] EXCEPT !.digest = logs] = twice
    BY <2>1, <2>2, Zenon
  <2>. QED
    BY <2>1, <2>3
<1>. DEFINE q == [p EXCEPT !.folded = logs]
            r == [p EXCEPT !.folded = logs, !.digest = logs]
<1>3. /\ q = [at |-> q.at, folded |-> q.folded, digest |-> q.digest,
              proof |-> q.proof]
      /\ r = [at |-> r.at, folded |-> r.folded, digest |-> r.digest,
              proof |-> r.proof]
      /\ q.at = p.at /\ q.proof = p.proof /\ r.at = p.at /\ r.proof = p.proof
  BY <1>2
<1>. HIDE DEF q, r
<1>4. Proven(T, q) /\ Proven(T, r)
  BY <1>3 DEF Proven
<1>. QED
  BY <1>4 DEF q, r

\* The scopes stand whatever a step does to them.
LEMMA ScopesStand ==
    ASSUME NEW T, T = Topics, WorldHolds(T), ReaderNext
    PROVE  Standing(T, scopes)'
<1>s. Standing(T, scopes) /\ ChainTypeOK
  BY DEF WorldHolds
<1>1. CASE UNCHANGED scopes
  BY <1>s, <1>1 DEF Standing
<1>2. ASSUME NEW c \in CallSlot, CacheReset(c)
      PROVE  Standing(T, scopes)'
  <2>1. scopes' \in [T -> UNION {{scopes[t]} \cup ResetOf(scopes[t]) : t \in T}]
    BY <1>2 DEF CacheReset
  <2>2. \A t \in T : \E u \in T :
            scopes'[t] = scopes[u] \/ scopes'[t] \in ResetOf(scopes[u])
    BY <2>1
  <2>3. \A t \in T : Lineage(StartBlock, scopes'[t].checkpoints)
    BY <1>s, <2>2, ResetsStand DEF Standing
  <2>4. scopes' = [t \in T |-> scopes'[t]]
    BY <2>1
  <2>. QED
    BY <2>3, <2>4 DEF Standing
<1>3. CASE OtherTab
  <2>1. PICK t \in T :
           \/ \E p \in ResetOf(scopes[t]) : scopes' = [scopes EXCEPT ![t] = p]
           \/ \E r \in SyncResults(StartBlock, scopes[t].checkpoints) :
                 scopes' = [scopes EXCEPT ![t] = Position(
                     scopes[t].generation, scopes[t].revision + 1, r.checkpoints)]
    BY <1>3 DEF OtherTab
  <2>2. ASSUME NEW p \in ResetOf(scopes[t]), scopes' = [scopes EXCEPT ![t] = p]
        PROVE  Standing(T, scopes)'
    BY <1>s, <2>2, ResetsStand, ScopeMoves
  <2>3. ASSUME NEW r \in SyncResults(StartBlock, scopes[t].checkpoints),
               scopes' = [scopes EXCEPT ![t] = Position(
                   scopes[t].generation, scopes[t].revision + 1, r.checkpoints)]
        PROVE  Standing(T, scopes)'
    <3>. DEFINE p == Position(scopes[t].generation, scopes[t].revision + 1,
                              r.checkpoints)
    <3>1. Lineage(StartBlock, scopes[t].checkpoints)
      BY <1>s DEF Standing
    <3>2. Lineage(StartBlock, r.checkpoints)
      BY <1>s, <2>3, <3>1, SyncResultFits, ReaderAssumption
    <3>3. p.checkpoints = r.checkpoints
      BY DEF Position
    <3>4. scopes' = [scopes EXCEPT ![t] = p]
      BY <2>3
    <3>. HIDE DEF p
    <3>. QED
      BY <1>s, <3>2, <3>3, <3>4, ScopeMoves
  <2>. QED
    BY <2>1, <2>2, <2>3
<1>4. ASSUME NEW c \in CallSlot,
             \/ Load(c) \/ Advance(c) \/ Synchronized(c) \/ PostsRead(c)
             \/ ProgressLoaded(c) \/ ProgressRemoved(c) \/ RunOpened(c)
             \/ PageScanned(c) \/ Authenticated(c) \/ ProgressSaved(c)
             \/ ProgressForgotten(c)
      PROVE  UNCHANGED scopes
  BY <1>4 DEF Load, Advance, Synchronized, PostsRead, ProgressLoaded,
     ProgressRemoved, RunOpened, PageScanned, Authenticated, ProgressSaved,
     ProgressForgotten
<1>5. ASSUME Switch \/ RunEffect \/ Damage \/ Reorganize
      PROVE  UNCHANGED scopes
  BY <1>5 DEF Switch, RunEffect, Damage, Reorganize
<1>. QED
  BY <1>1, <1>2, <1>3, <1>4, <1>5 DEF ReaderNext, Answered

\* Whatever a step does to the saved progress, its proof was made of a whole
\* history.
LEMMA StoreStands ==
    ASSUME NEW T, T = Topics, WorldHolds(T), HookHolds(T), ReaderNext
    PROVE  AtMostOne(store)' /\ (\A p \in store : Proven(T, p))'
<1>s. AtMostOne(store) /\ \A p \in store : Proven(T, p)
  BY DEF WorldHolds
<1>1. CASE store' \in {{}, store}
  BY <1>s, <1>1 DEF AtMostOne
<1>2. ASSUME NEW c \in CallSlot, ProgressSaved(c)
      PROVE  AtMostOne(store)' /\ (\A p \in store : Proven(T, p))'
  <2>1. store' = calls[c].resume \/ store' = store
    BY <1>2 DEF ProgressSaved
  <2>2. AtMostOne(calls[c].resume) /\ \A p \in calls[c].resume : Proven(T, p)
    BY CallIs
  <2>. QED
    BY <1>s, <2>1, <2>2 DEF AtMostOne
<1>3. CASE Damage
  <2>1. PICK p \in store, logs \in SUBSET Log :
           \/ store' = {[p EXCEPT !.folded = logs]}
           \/ store' = {[p EXCEPT !.folded = logs, !.digest = logs]}
    BY <1>3 DEF Damage
  <2>. DEFINE q == [p EXCEPT !.folded = logs]
              r == [p EXCEPT !.folded = logs, !.digest = logs]
  <2>2. Proven(T, q) /\ Proven(T, r)
    BY <1>s, DamagedIsProven
  <2>3. store' = {q} \/ store' = {r}
    BY <2>1
  <2>. HIDE DEF q, r
  <2>. QED
    BY <2>2, <2>3 DEF AtMostOne
<1>4. ASSUME NEW c \in CallSlot,
             \/ Load(c) \/ Advance(c) \/ Synchronized(c) \/ PostsRead(c)
             \/ ProgressLoaded(c) \/ ProgressRemoved(c) \/ RunOpened(c)
             \/ PageScanned(c) \/ Authenticated(c) \/ CacheReset(c)
             \/ ProgressForgotten(c)
      PROVE  store' \in {{}, store}
  BY <1>4 DEF Load, Advance, Synchronized, PostsRead, ProgressLoaded,
     ProgressRemoved, RunOpened, PageScanned, Authenticated, CacheReset,
     ProgressForgotten, MayRemove
<1>5. ASSUME Switch \/ RunEffect \/ OtherTab \/ Reorganize
      PROVE  store' \in {{}, store}
  BY <1>5 DEF Switch, RunEffect, OtherTab, Reorganize
<1>. QED
  BY <1>1, <1>2, <1>3, <1>4, <1>5 DEF ReaderNext, Answered

\* The read model stays the one it is, and the chain a chain.
LEMMA WorldStays ==
    ASSUME NEW T, WorldHolds(T), ReaderNext
    PROVE  ChainTypeOK' /\ kind' = kind
<1>1. UNCHANGED chainVars => ChainTypeOK'
  BY DEF WorldHolds, ChainTypeOK, chainVars
<1>2. Reorganize => ChainTypeOK'
  BY ChainAssumption DEF WorldHolds, ChainTypeOK, Reorganize, MoveHead
<1>3. ASSUME NEW c \in CallSlot, Load(c) \/ Advance(c) \/ Answered(c)
      PROVE  UNCHANGED chainVars /\ kind' = kind
  BY <1>3 DEF Answered, Load, Advance, Synchronized, PostsRead,
     ProgressLoaded, ProgressRemoved, RunOpened, PageScanned, Authenticated,
     CacheReset, ProgressSaved, ProgressForgotten, world
<1>4. ASSUME Switch \/ RunEffect \/ OtherTab \/ Damage
      PROVE  UNCHANGED chainVars /\ kind' = kind
  BY <1>4 DEF Switch, RunEffect, OtherTab, Damage, world
<1>5. Reorganize => kind' = kind
  BY DEF Reorganize
<1>. QED
  BY <1>1, <1>2, <1>3, <1>4, <1>5 DEF ReaderNext

\* Every step of the read model keeps its hook, calls and runs in order.
LEMMA StepKeeps ==
    ASSUME NEW T, T = Topics, WorldHolds(T), HookHolds(T), ReaderNext
    PROVE  HookHolds(T)'
<1>1. kind \in Kind /\ SomeTopics(T)
  BY TopicsAre DEF WorldHolds
<1>2. ASSUME NEW c \in CallSlot, Load(c) \/ Advance(c)
      PROVE  HookHolds(T)'
  BY <1>1, <1>2, LoadKeeps, AdvanceKeeps
<1>3. ASSUME NEW c \in CallSlot,
             \/ Synchronized(c) \/ PostsRead(c) \/ ProgressLoaded(c)
             \/ ProgressRemoved(c) \/ RunOpened(c)
      PROVE  HookHolds(T)'
  BY <1>3, SynchronizedKeeps, PostsReadKeeps, ProgressLoadedKeeps,
     ProgressRemovedKeeps, RunOpenedKeeps
<1>4. ASSUME NEW c \in CallSlot,
             \/ PageScanned(c) \/ Authenticated(c) \/ ProgressSaved(c)
             \/ CacheReset(c) \/ ProgressForgotten(c)
      PROVE  HookHolds(T)'
  BY <1>1, <1>4, PageScannedKeeps, AuthenticatedKeeps, ProgressSavedKeeps,
     CacheResetKeeps, ProgressForgottenKeeps
<1>5. CASE RunEffect
  BY <1>1, <1>5, RunEffectKeeps
<1>6. CASE Switch \/ OtherTab \/ Damage \/ Reorganize
  <2>1. UNCHANGED <<hook, calls, runs, effect, kind>>
    BY <1>6 DEF Switch, OtherTab, Damage, Reorganize, world
  <2>. QED
    BY <2>1, HookStays
<1>. QED
  BY <1>2, <1>3, <1>4, <1>5, <1>6 DEF ReaderNext, Answered

\* Before anything happens, nothing is held, awaited or shown.
LEMMA InitHolds ==
    ASSUME ReaderInit, NEW T, T = Topics
    PROVE  WorldHolds(T) /\ HookHolds(T)
<1>1. kind \in Kind /\ SomeTopics(T)
  BY TopicsAre DEF ReaderInit
<1>2. WorldHolds(T)
  <2>1. ChainTypeOK
    BY DEF ReaderInit, ChainInit, ChainTypeOK
  <2>2. scopes = [t \in T |-> Position(0, 0, {})]
    BY DEF ReaderInit
  <2>3. Lineage(StartBlock, {})
    BY EndsOfEmpty DEF Lineage, SameBranch
  <2>4. Standing(T, scopes)
    <3>. DEFINE start == Position(0, 0, {})
    <3>1. start.checkpoints = {}
      BY DEF Position
    <3>2. scopes = [t \in T |-> start]
      BY <2>2
    <3>. HIDE DEF start
    <3>3. scopes = [t \in T |-> scopes[t]] /\ \A t \in T : scopes[t] = start
      BY <3>2
    <3>. QED
      BY <2>3, <3>1, <3>3 DEF Standing
  <2>. QED
    BY <1>1, <2>1, <2>4 DEF WorldHolds, AtMostOne, ReaderInit
<1>3. /\ calls = [c \in CallSlot |-> Quiet]
      /\ runs = [r \in RunSlot |-> Unopened]
      /\ held = NoRun /\ current = NoCall /\ busy = FALSE /\ shown = {}
  BY DEF ReaderInit
<1>4. CallHolds(T, Quiet) /\ Quiet.run = NoRun /\ Quiet.doing = "nothing"
  BY QuietHolds
<1>5. RunHolds(T, Unopened) /\ ~ Unopened.open
  BY <1>1, UnopenedHolds
<1>6. /\ \A c \in CallSlot : calls[c] = Quiet
      /\ \A r \in RunSlot : runs[r] = Unopened
      /\ calls = [c \in CallSlot |-> calls[c]]
      /\ runs = [r \in RunSlot |-> runs[r]]
  BY <1>3
<1>7. CallsHold(T)
  BY <1>4, <1>6 DEF CallsHold
<1>8. RunsHold(T)
  BY <1>5, <1>6 DEF RunsHold
<1>9. Referred
  BY <1>4, <1>6 DEF Referred
<1>10. Holding(T)
  BY <1>3, <1>5, <1>6, NamesAreNumbers DEF Holding
<1>11. ShownHolds(T)
  BY <1>3 DEF ShownHolds, AtMostOne
<1>. QED
  BY <1>2, <1>7, <1>8, <1>9, <1>10, <1>11 DEF HookHolds

\* A read model in any behaviour: its scopes and its saved progress stand for
\* histories, its runs have folded what they have read, and the page holds
\* and shows what its calls and runs have come to.
THEOREM ReaderInvariance == ReaderSpec => []ReaderInv
<1>1. ReaderInit => ReaderInv
  BY InitHolds DEF ReaderInv
<1>2. ReaderInv /\ [ReaderNext]_readerVars => ReaderInv'
  <2>1. ASSUME ReaderInv, ReaderNext, NEW T, T = Topics
        PROVE  T = Topics' /\ WorldHolds(T)' /\ HookHolds(T)'
    <3>1. WorldHolds(T) /\ HookHolds(T)
      BY <2>1 DEF ReaderInv
    <3>2. ChainTypeOK' /\ kind' = kind
      BY <2>1, <3>1, WorldStays
    <3>3. Standing(T, scopes)'
      BY <2>1, <3>1, ScopesStand
    <3>4. AtMostOne(store)' /\ (\A p \in store : Proven(T, p))'
      BY <2>1, <3>1, StoreStands
    <3>5. WorldHolds(T)'
      BY <3>1, <3>2, <3>3, <3>4 DEF WorldHolds
    <3>6. HookHolds(T)'
      BY <2>1, <3>1, StepKeeps
    <3>7. T = Topics'
      BY <2>1, <3>2 DEF Topics, Phases
    <3>. QED
      BY <3>5, <3>6, <3>7
  <2>2. ASSUME ReaderInv, UNCHANGED readerVars, NEW T, T = Topics
        PROVE  T = Topics' /\ WorldHolds(T)' /\ HookHolds(T)'
    <3>1. WorldHolds(T) /\ HookHolds(T)
      BY <2>2 DEF ReaderInv
    <3>2. /\ UNCHANGED <<head, orphaned, kind, effect, scopes, store>>
          /\ UNCHANGED <<hook, calls, runs>>
      BY <2>2 DEF readerVars, world, chainVars
    <3>3. WorldHolds(T)'
      BY <3>1, <3>2 DEF WorldHolds, ChainTypeOK, Standing, AtMostOne
    <3>4. UNCHANGED <<hook, calls, runs, effect, kind>>
      BY <3>2
    <3>5. HookHolds(T)'
      BY <3>1, <3>4, HookStays
    <3>6. T = Topics'
      BY <2>2, <3>2 DEF Topics, Phases
    <3>. QED
      BY <3>3, <3>5, <3>6
  <2>. QED
    BY <2>1, <2>2 DEF ReaderInv
<1>. QED
  BY <1>1, <1>2, PTL DEF ReaderSpec

\* In any behaviour, a complete run has folded the logs of its anchor's
\* scopes, all of them and no others, resumed or not.
THEOREM CompleteRunsAreWhole == ReaderSpec => []CompleteIsWhole
<1>1. ReaderInv => CompleteIsWhole
  <2>. SUFFICES ASSUME ReaderInv, NEW r \in RunSlot, runs[r].phase = "complete"
                PROVE  runs[r].folded = Whole(runs[r].anchor)
    BY DEF CompleteIsWhole
  <2>1. PICK T : T = Topics
    OBVIOUS
  <2>2. WorldHolds(T) /\ HookHolds(T)
    BY <2>1 DEF ReaderInv
  <2>3. SomeTopics(T)
    BY <2>1, <2>2, TopicsAre DEF WorldHolds
  <2>4. RunHolds(T, runs[r])
    BY <2>2 DEF HookHolds, RunsHold
  <2>. QED
    BY <2>3, <2>4, ReadRunIsWhole
<1>. QED
  BY <1>1, ReaderInvariance, PTL

\* In any behaviour, what a page shows as complete is the whole history
\* through the boundary it shows, of the provider that is connected and of
\* the run it holds; and what it shows as being read can be advanced.
THEOREM ShownIsHeld == ReaderSpec => []WhatIsShownIsHeld
<1>1. ReaderInv => WhatIsShownIsHeld
  <2>. SUFFICES ASSUME ReaderInv, NEW s \in Visible
                PROVE  /\ s.phase = "complete" =>
                             /\ Answer = {Whole(s.through)}
                             /\ held # NoRun => /\ runs[held].phase = "complete"
                                                /\ runs[held].session = session
                       /\ s.phase = "projecting" /\ ~ busy =>
                             held # NoRun /\ Unfinished(runs[held])
    BY DEF WhatIsShownIsHeld
  <2>1. PICK T : T = Topics
    OBVIOUS
  <2>2. WorldHolds(T) /\ HookHolds(T)
    BY <2>1 DEF ReaderInv
  <2>3. SomeTopics(T)
    BY <2>1, <2>2, TopicsAre DEF WorldHolds
  <2>4. s \in shown /\ s.session = session /\ effect = session
    BY <2>2 DEF Visible, HookHolds, ShownHolds
  <2>5. Holding(T) /\ ShownHolds(T) /\ RunsHold(T)
    BY <2>2 DEF HookHolds
  <2>6. ASSUME s.phase = "complete"
        PROVE  /\ Answer = {Whole(s.through)}
               /\ held # NoRun => /\ runs[held].phase = "complete"
                                  /\ runs[held].session = session
    <3>1. CASE kind = "profiles"
      <4>1. Visible = {s}
        BY <2>4, <2>5 DEF Visible, ShownHolds, AtMostOne
      <4>2. s.content = Whole(s.through) /\ held = NoRun
        BY <2>4, <2>5, <2>6, <3>1 DEF ShownHolds
      <4>. QED
        BY <3>1, <4>1, <4>2 DEF Answer
    <3>2. CASE kind # "profiles"
      <4>1. /\ held # NoRun
            /\ runs[held].phase = "complete"
            /\ runs[held].anchor = s.through
        BY <2>4, <2>5, <2>6, <3>2 DEF ShownHolds
      <4>2. held \in RunSlot /\ runs[held].session = session
        BY <2>4, <2>5, <4>1 DEF Holding
      <4>3. runs[held].folded = Whole(s.through)
        BY <2>3, <2>5, <4>1, <4>2, ReadRunIsWhole DEF RunsHold
      <4>. QED
        BY <3>2, <4>1, <4>2, <4>3 DEF Answer
    <3>. QED
      BY <3>1, <3>2
  <2>7. ASSUME s.phase = "projecting", ~ busy
        PROVE  held # NoRun /\ Unfinished(runs[held])
    <3>1. current = NoCall
      BY <2>5, <2>7 DEF Holding
    <3>2. held # NoRun /\ runs[held].phase \in T \cup {"authenticate"}
      BY <2>4, <2>5, <2>7, <3>1 DEF ShownHolds
    <3>. QED
      BY <2>1, <3>2 DEF Unfinished, IsScanning
  <2>. QED
    BY <2>6, <2>7
<1>. QED
  BY <1>1, ReaderInvariance, PTL

\* In any behaviour, only the run a page holds has an open cache connection.
THEOREM RunsAreClosed == ReaderSpec => []NoRunLeftOpen
<1>1. ReaderInv => NoRunLeftOpen
  BY DEF ReaderInv, HookHolds, Holding, NoRunLeftOpen
<1>. QED
  BY <1>1, ReaderInvariance, PTL

\* In any behaviour, the page is busy exactly while its newest call waits.
THEOREM BusyWhileAwaiting == ReaderSpec => []BusyWhileCalling
<1>1. ReaderInv => BusyWhileCalling
  <2>. SUFFICES ASSUME ReaderInv PROVE BusyWhileCalling
    OBVIOUS
  <2>1. PICK T : T = Topics
    OBVIOUS
  <2>2. Holding(T)
    BY <2>1 DEF ReaderInv, HookHolds
  <2>. QED
    BY <2>2, QuietHolds DEF Holding, BusyWhileCalling
<1>. QED
  BY <1>1, ReaderInvariance, PTL
============================================================================
