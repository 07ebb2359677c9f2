------------------------------- MODULE Embeds -------------------------------
(***************************************************************************)
(* A Discord message with media, from the album it is made of to its last  *)
(* refresh: the names the files are uploaded under (coalesce_album and     *)
(* deliver_coalesced_media in src/src/main.rs), the embeds a text is split *)
(* into and the images put into them (embed and attach_image_urls in       *)
(* src/src/render.rs), the urls kept of Discord's answer                   *)
(* (parse_delivered_media_urls in src/src/deliver.rs), and the media that  *)
(* a PATCH puts back (reattach_stored_media in src/src/refresh.rs).  Texts *)
(* are their lengths; a name is a sequence, the stem and what was added.   *)
(***************************************************************************)
EXTENDS Naturals, Sequences, SequencesExt

CONSTANTS
    Batches,     \* albums: sequences of [name, image], in the order of ids
    Lengths,     \* the lengths a text may have
    MarkLength,  \* that of "(edited) "
    NoteLength,  \* that of the tombstone's note
    DescLimit,   \* EMBED_DESC_LIMIT
    MaxEmbeds    \* MAX_EMBEDS

ASSUME EmbedsAssumption ==
    /\ \A b \in Batches :
          /\ b \in Seq(ToSet(b))
          /\ \A i \in DOMAIN b :
                b[i].name \in Seq(ToSet(b[i].name)) \ {<<>>} /\ b[i].image \in BOOLEAN
    /\ Lengths \subseteq Nat /\ MarkLength \in Nat /\ NoteLength \in Nat \ {0}
    /\ DescLimit \in Nat \ {0} /\ MaxEmbeds \in Nat \ {0}

VARIABLES
    batch,     \* the album
    source,    \* what the message is rendered from: [length, edited, deleted]
    embeds,    \* its embeds: [length, tail, grouped, image], image a file's number or 0
    attached,  \* the files Discord holds for it, by number
    stored     \* the urls in its row: a sequence of files [number, name, image]

embedsVars == <<batch, source, embeds, attached, stored>>

NotPosted == [length |-> 0, edited |-> FALSE, deleted |-> FALSE]

EmbedsInit ==
    /\ batch \in Batches
    /\ source = NotPosted /\ embeds = <<>> /\ attached = {} /\ stored = <<>>
-----------------------------------------------------------------------------
(* What is left of a sequence at the given places, in its order.           *)
Kept(s, places) ==
    FoldLeftDomain(LAMBDA kept, i : IF i \in places THEN Append(kept, s[i]) ELSE kept, <<>>, s)

(* A name that was seen has the message's id put in. *)
Uploads(b) ==
    LET add(files, i) ==
          LET name == b[i].name
              taken == \E k \in DOMAIN files : files[k].name = name
          IN  Append(files, [number |-> i, image |-> b[i].image,
                             name |-> IF taken THEN Append(name, i) ELSE name])
    IN  FoldLeftDomain(add, <<>>, b)

(* The description: a tombstone has lost its text, and none may be empty. *)
Description(s) ==
    LET n == IF s.edited THEN s.length + MarkLength ELSE s.length IN
    IF s.deleted THEN NoteLength ELSE IF n = 0 THEN 1 ELSE n

(* Its pieces, of which Discord takes so many and the rest is cut off. *)
Pieces(s) ==
    LET n == (Description(s) + DescLimit - 1) \div DescLimit IN
    IF n > MaxEmbeds THEN MaxEmbeds ELSE n

(* The last piece bears the stats, the link and the footer. *)
Rendered(s) ==
    [i \in 1..Pieces(s) |->
        [length |-> IF i * DescLimit <= Description(s) THEN DescLimit ELSE Description(s) % DescLimit,
         tail |-> i = Pieces(s), grouped |-> FALSE, image |-> <<>>]]

(* attach_image_urls: the first image goes under the text, each other one  *)
(* into an embed of its own, grouped by a common url, while there is room. *)
WithImages(es, names) ==
    IF names = <<>> THEN es
    ELSE LET room == MaxEmbeds - Len(es)
             more == IF Len(names) - 1 < room THEN Len(names) - 1 ELSE room
         IN  [es EXCEPT ![Len(es)] = [@ EXCEPT !.image = names[1], !.grouped = Len(names) > 1]]
             \o [i \in 1..more |->
                   [length |-> 0, tail |-> FALSE, grouped |-> TRUE, image |-> names[i + 1]]]

Images(files) == Kept(files, {k \in DOMAIN files : files[k].image})
NamesOf(files) == [i \in DOMAIN files |-> files[i].name]

(* Discord looks attachment://name up among the files of the message. *)
Resolved(es, files) ==
    [i \in DOMAIN es |->
        [es[i] EXCEPT !.image =
            IF @ = <<>> THEN 0
            ELSE files[CHOOSE k \in DOMAIN files :
                          /\ files[k].name = @
                          /\ \A j \in 1..k - 1 : files[j].name # @].number]]

Built(s, files) == Resolved(WithImages(Rendered(s), NamesOf(Images(files))), files)

(* The files that embeds show, in the order of the embeds. *)
Inline(es) ==
    Kept([i \in DOMAIN es |-> es[i].image], {i \in DOMAIN es : es[i].image # 0})

(* Discord's answer lists the files that no embed shows, and maybe the     *)
(* others as well.                                                         *)
Listed(es, files, all) ==
    Kept(files, {k \in DOMAIN files : all \/ ~Contains(Inline(es), files[k].number)})

(* A faulty variant: only the images in embeds are kept. *)
CapturedImagesOnly(es, files, all) == [i \in DOMAIN Inline(es) |-> files[Inline(es)[i]]]

(* A faulty variant: the list comes first. *)
CapturedListFirst(es, files, all) ==
    LET shown  == [i \in DOMAIN Inline(es) |-> files[Inline(es)[i]]]
        listed == Listed(es, files, all)
    IN  listed \o Kept(shown, {k \in DOMAIN shown : ~Contains(listed, shown[k])})

(* parse_delivered_media_urls: those in embeds, then those listed, without *)
(* repetition.                                                             *)
Captured(es, files, all) ==
    LET shown  == [i \in DOMAIN Inline(es) |-> files[Inline(es)[i]]]
        listed == Listed(es, files, all)
    IN  shown \o Kept(listed, {k \in DOMAIN listed : ~Contains(shown, listed[k])})
-----------------------------------------------------------------------------
(* The album is posted and recorded. *)
PostAlbum(n, all) ==
    /\ embeds = <<>>
    /\ source' = [length |-> n, edited |-> FALSE, deleted |-> FALSE]
    /\ embeds' = Built(source', Uploads(batch))
    /\ attached' = DOMAIN Uploads(batch)
    /\ stored' = Captured(embeds', Uploads(batch), all)
    /\ UNCHANGED batch

(* A PATCH builds the message anew from its source as it is now and the    *)
(* files of the row; Discord deletes the files that it does not list.      *)
PatchAlbum(s) ==
    /\ embeds # <<>> /\ ~source.deleted
    /\ source' = s
    /\ embeds' = Built(s, stored)
    /\ attached' = attached \cap {stored[i].number : i \in DOMAIN stored}
    /\ UNCHANGED <<batch, stored>>

RefreshAlbum ==
    \/ PatchAlbum([source EXCEPT !.deleted = TRUE])
    \/ PatchAlbum(source)
    \/ \E n \in Lengths : PatchAlbum([source EXCEPT !.length = n, !.edited = TRUE])

EmbedsNext == (\E n \in Lengths, all \in BOOLEAN : PostAlbum(n, all)) \/ RefreshAlbum

EmbedsSpec == EmbedsInit /\ [][EmbedsNext]_embedsVars
-----------------------------------------------------------------------------
(* No refresh takes a file off the message: the row knows all of them,     *)
(* shown in an embed or not, and whether or not Discord's answer listed    *)
(* the ones that are.  (A PATCH that forgot one would delete it.)          *)
FilesStay == embeds # <<>> => attached = DOMAIN batch

(* The names are distinct unless a file was already called what another    *)
(* one's name was changed to.                                              *)
NamesDistinct(b) ==
    \A i, k \in DOMAIN Uploads(b) : Uploads(b)[i].name = Uploads(b)[k].name => i = k

(* However the text grows and shrinks, a message has no more embeds than   *)
(* Discord takes, and they show the images of the album in its order, each *)
(* once, as many as there is room for.                                     *)
GalleryInOrder ==
    embeds # <<>> =>
        /\ Len(embeds) <= MaxEmbeds
        /\ NamesDistinct(batch) =>
             LET images == Kept([i \in DOMAIN batch |-> i], {i \in DOMAIN batch : batch[i].image})
                 room   == MaxEmbeds - Pieces(source) + 1
             IN  Inline(embeds) = SubSeq(images, 1, IF Len(images) < room THEN Len(images) ELSE room)
=============================================================================
