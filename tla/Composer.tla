------------------------------- MODULE Composer -------------------------------
(***************************************************************************)
(* The composer of one client: the draft, its attachment, the key shared   *)
(* with the peer, the request that posts a message, and the typing signals *)
(* (ChatWindow in ChatsPage.tsx, ChatScreen.tsx).                          *)
(*                                                                         *)
(* The web client does not key the component by its chat: when another     *)
(* chat is opened, draft, attachment, key and typing state stay.  The      *)
(* mobile client has a screen for each opening.  Requests and promises end *)
(* in any order.  A key stands for the chat it is shared in; drafts are    *)
(* numbered by their edits.  Voice recording is left out.                  *)
(***************************************************************************)
EXTENDS Naturals, Pages

CONSTANTS Files,
          Direct,    \* the direct chats: only these are encrypted
          Uses,      \* bound: what one behaviour has, [text, keys, chats, files, sends]
          MaxEdits,  \* bound on edits of the draft
          MaxSends,  \* bound on messages submitted
          MaxFails   \* bound on requests that fail or lose their answer

ASSUME DirectAssumption == Direct \subseteq Chats
ASSUME FilesAssumption == None \notin Files
ASSUME ComposerBounds == /\ {MaxEdits, MaxSends, MaxFails} \subseteq Nat
                         /\ \A u \in Uses : u.sends \in 0..MaxSends

VARIABLES
  uses,
  chat,       \* the chat of the composer, None if it is not rendered
  key,        \* sharedKey
  derives,    \* derivations of a key whose result will be stored
  text,       \* the draft: the number of its last edit, 0 if it is empty
  edits,      \* edits so far
  att,        \* pendingAttachment; the server's id of a file is the file
  uploads,    \* uploads under way whose end the composer will see
  encrypting, \* web: handleSubmit() calls that await the encryption
  sending,    \* POST /messages under way
  latest,     \* the request that isPending tells about, 0 if none
  submits,    \* messages submitted so far
  fails,      \* requests failed so far
  posted,     \* messages stored by the server
  isTyping,   \* isTypingRef
  timer,      \* the chat that the typing timer will write to, None if it is off
  strays,     \* chats of the timers left by former composers
  announced,  \* chats whose members were told that this user types
  derived,    \* the key of this chat was derived since it was opened (history)
  late,       \* drafts and files that came while a message was on its way (history)
  lost,       \* drafts and files cleared though they were not sent (history)
  removed,    \* files the user removed before they were in a message (history)
  overlap,    \* two uploads were under way at once (history)
  doubled,    \* contents submitted again while Overlooked, or unanswered (history)
  abandoned   \* chats switched away from while typing (history)

key_vars == <<chat, key, derives, derived>>
draft == <<text, edits, att, uploads>>
request == <<encrypting, sending, latest, submits, fails, posted>>
typing_vars == <<isTyping, timer, strays, announced, abandoned>>
history == <<late, lost, removed, overlap, doubled>>
client == <<platform, uses>>
composer_vars == <<client, key_vars, draft, request, typing_vars, history>>

Drafts == 1..MaxEdits
\* The draft and the file of a message.
Contents == (0..MaxEdits) \X (Files \cup {None})
Content(p) == <<p.draft, p.file>>
NoAttachment == [file |-> None, id |-> None, uploading |-> FALSE]

Payload == [n : 1..MaxSends, draft : 0..MaxEdits, file : Files \cup {None}, id : Files \cup {None},
            key : Chats \cup {None}, to : Chats, own : BOOLEAN, derived : BOOLEAN, crossed : BOOLEAN]

ComposerTypeOK ==
  /\ platform \in Platforms /\ uses \in Uses
  /\ chat \in Chats \cup {None} /\ key \in Direct \cup {None} /\ derives \subseteq Direct
  /\ text \in 0..MaxEdits /\ edits \in 0..MaxEdits
  /\ att \in [file : Files \cup {None}, id : Files \cup {None}, uploading : BOOLEAN]
  /\ uploads \subseteq Files
  /\ encrypting \subseteq Payload /\ sending \subseteq Payload /\ posted \subseteq Payload
  /\ latest \in 0..MaxSends /\ submits \in 0..MaxSends /\ fails \in 0..MaxFails
  /\ isTyping \in BOOLEAN /\ timer \in Chats \cup {None}
  /\ strays \subseteq Chats /\ announced \subseteq Chats /\ abandoned \subseteq Chats
  /\ derived \in BOOLEAN /\ overlap \in BOOLEAN /\ doubled \subseteq Contents
  /\ late \subseteq Drafts \cup Files /\ lost \subseteq Drafts \cup Files /\ removed \subseteq Files

ComposerInit ==
  /\ platform \in Platforms /\ uses \in Uses
  /\ chat = None /\ key = None /\ derives = {}
  /\ text = 0 /\ edits = 0 /\ att = NoAttachment /\ uploads = {}
  /\ encrypting = {} /\ sending = {} /\ latest = 0 /\ submits = 0 /\ fails = 0 /\ posted = {}
  /\ isTyping = FALSE /\ timer = None /\ strays = {} /\ announced = {} /\ abandoned = {}
  /\ derived = FALSE /\ late = {} /\ lost = {} /\ removed = {} /\ overlap = FALSE /\ doubled = {}

-----------------------------------------------------------------------------
(* The composer is opened, reused and left                                 *)

\* DEFECT (mutant): a derivation that is no longer wanted is not cancelled.
NotCancelled(running) == running

\* The cleanup of the effect: what still runs will find `cancelled' set.
Cancelled(running) == {}

\* The effect on [chat]: a group has no key; for another direct chat the old
\* key stays until the new one is derived.
WebDerives(c) ==
  /\ derives' = Cancelled(derives) \cup ({c} \cap Direct)
  /\ key' = IF c \in Direct THEN key ELSE None

\* A request submitted before goes to the chat that is open when it is made.
Follows(c) == {IF p.own THEN [p EXCEPT !.to = c, !.crossed = TRUE] ELSE p : p \in encrypting}

WebOpens(c) ==
  /\ Web /\ c \in uses.chats \ {chat}
  /\ chat' = c /\ derived' = FALSE
  /\ WebDerives(c)
  /\ encrypting' = Follows(c)
  /\ abandoned' = IF chat # None /\ isTyping THEN abandoned \cup {chat} ELSE abandoned
  /\ UNCHANGED <<client, draft, sending, latest, submits, fails, posted,
                 isTyping, timer, strays, announced, history>>

\* From the list, with the peer of a direct chat; the screen is left before
\* another chat can be opened.
MobileOpens(c) ==
  /\ Mobile /\ chat = None /\ c \in uses.chats
  /\ chat' = c /\ derived' = FALSE
  /\ derives' = {c} \cap Direct
  /\ UNCHANGED <<client, key, draft, request, typing_vars, history>>

\* DEFECT (mutant): the typing timer is cleared when the composer is left.
StraysCleared == strays

\* No cleanup clears the timer, which will find isTyping as it was left.
StraysLeft == IF isTyping /\ timer # None THEN strays \cup {timer} ELSE strays

\* Back, or to another page: the next composer starts empty, and what is on
\* its way ends without telling anyone.
Leaves ==
  /\ chat # None
  /\ chat' = None /\ key' = None /\ derives' = {} /\ derived' = FALSE
  /\ text' = 0 /\ att' = NoAttachment /\ uploads' = {}
  /\ encrypting' = {[p EXCEPT !.own = FALSE] : p \in encrypting}
  /\ sending' = {[p EXCEPT !.own = FALSE] : p \in sending}
  /\ latest' = 0
  /\ isTyping' = FALSE /\ timer' = None /\ strays' = StraysLeft
  /\ UNCHANGED <<client, edits, submits, fails, posted, announced, abandoned, history>>

\* The keys were loaded, the devices of the peer fetched, the key derived.
WebKeyDerived(c) ==
  /\ Web /\ uses.keys /\ c \in derives
  /\ derives' = derives \ {c} /\ key' = c
  /\ derived' = (derived \/ c = chat)
  /\ UNCHANGED <<client, chat, draft, request, typing_vars, history>>

\* loadIdentityKey() has resolved.
MobileKeyDerived(c) ==
  /\ Mobile /\ uses.keys /\ c \in derives
  /\ derives' = derives \ {c} /\ key' = c
  /\ derived' = (derived \/ c = chat)
  /\ UNCHANGED <<client, chat, draft, request, typing_vars, history>>

\* No key of one's own, no device of the peer, or an error: nothing is told.
KeyNotDerived(c) ==
  /\ c \in derives
  /\ derives' = derives \ {c}
  /\ UNCHANGED <<client, chat, key, derived, draft, request, typing_vars, history>>

-----------------------------------------------------------------------------
(* handleTyping                                                            *)

\* A message of this composer is being encrypted or posted.
Busy == \E p \in encrypting \cup sending : p.own

Signals == IF isTyping THEN UNCHANGED announced ELSE announced' = announced \cup {chat}

Types ==
  /\ uses.text /\ chat # None /\ edits < MaxEdits
  /\ edits' = edits + 1 /\ text' = edits'
  /\ Signals /\ isTyping' = TRUE
  /\ timer' = chat
  /\ late' = IF Busy THEN late \cup {text'} ELSE late
  /\ UNCHANGED <<client, key_vars, att, uploads, request, strays, abandoned,
                 lost, removed, overlap, doubled>>

Empties ==
  /\ chat # None /\ text # 0
  /\ text' = 0
  /\ timer' = chat
  /\ UNCHANGED <<client, key_vars, edits, att, uploads, request, isTyping, strays, announced,
                 abandoned, history>>

\* The timer writes to the chat in which it was set.
TypingTimerFires ==
  /\ timer # None
  /\ timer' = None /\ isTyping' = FALSE
  /\ announced' = IF isTyping THEN announced \ {timer} ELSE announced
  /\ UNCHANGED <<client, key_vars, draft, request, strays, abandoned, history>>

StrayFires(c) ==
  /\ c \in strays
  /\ strays' = strays \ {c} /\ announced' = announced \ {c}
  /\ UNCHANGED <<client, key_vars, draft, request, isTyping, timer, abandoned, history>>

-----------------------------------------------------------------------------
(* Attachments                                                             *)

InMessages(f) == \E p \in encrypting \cup sending \cup posted : f \in {p.file, p.id}

\* Each choice of a file is another element of Files.
Picks(f) ==
  /\ f \in uses.files /\ chat # None
  /\ f \notin uploads \cup removed \cup late \cup {att.file} /\ ~InMessages(f)
  /\ att' = [file |-> f, id |-> None, uploading |-> TRUE]
  /\ uploads' = uploads \cup {f}
  /\ overlap' = (overlap \/ uploads # {})
  /\ late' = IF Busy THEN late \cup {f} ELSE late
  /\ UNCHANGED <<client, key_vars, text, edits, request, typing_vars, lost, removed, doubled>>

WebUploaded(f) ==
  /\ Web /\ f \in uploads
  /\ uploads' = uploads \ {f}
  /\ att' = [file |-> f, id |-> f, uploading |-> FALSE]
  /\ UNCHANGED <<client, key_vars, text, edits, request, typing_vars, history>>

\* The id goes to the attachment there is, if there is one.
WithId(f) == IF att = NoAttachment THEN att ELSE [att EXCEPT !.id = f, !.uploading = FALSE]

MobileUploaded(f) ==
  /\ Mobile /\ f \in uploads
  /\ uploads' = uploads \ {f}
  /\ att' = WithId(f)
  /\ UNCHANGED <<client, key_vars, text, edits, request, typing_vars, history>>

UploadFails(f) ==
  /\ f \in uploads /\ fails < MaxFails
  /\ fails' = fails + 1
  /\ uploads' = uploads \ {f}
  /\ att' = NoAttachment
  /\ UNCHANGED <<client, key_vars, text, edits, encrypting, sending, latest, submits, posted,
                 typing_vars, history>>

Removes ==
  /\ att # NoAttachment
  /\ att' = NoAttachment
  /\ removed' = IF InMessages(att.file) THEN removed ELSE removed \cup {att.file}
  /\ UNCHANGED <<client, key_vars, text, edits, uploads, request, typing_vars,
                 late, lost, overlap, doubled>>

-----------------------------------------------------------------------------
(* handleSubmit and the request                                            *)

\* DEFECT (mutant): a message is sent while another one is on its way.
NeverPending == FALSE

\* sendMutation.isPending: of several requests the last one counts.
IsPending == \E p \in sending : p.n = latest

CanSend == (text # 0 \/ att.id # None) /\ ~IsPending /\ ~att.uploading

\* It does not tell about one that is being encrypted, nor about a request
\* that was made before the last one.
Overlooked(p) == p.own /\ p.n # latest

\* Without a key the text goes as it is.
Draft == [n |-> submits + 1, draft |-> text,
          file |-> IF att.id = None THEN None ELSE att.file, id |-> att.id,
          key |-> IF chat \in Direct THEN key ELSE None,
          to |-> chat, own |-> TRUE, derived |-> derived, crossed |-> FALSE]

StopsTyping ==
  /\ timer' = None /\ isTyping' = FALSE
  /\ announced' = IF isTyping THEN announced \ {chat} ELSE announced

Submitted ==
  /\ chat # None /\ CanSend /\ submits < uses.sends
  /\ submits' = submits + 1
  /\ StopsTyping
  /\ doubled' = IF \E p \in encrypting \cup sending : Overlooked(p) /\ Content(p) = Content(Draft)
                THEN doubled \cup {Content(Draft)} ELSE doubled
  /\ UNCHANGED <<client, key_vars, draft, fails, posted, strays, abandoned, late, lost, removed, overlap>>

\* With a key the text is encrypted first, which is awaited.
WebSubmits ==
  /\ Web /\ Submitted
  /\ IF Draft.key = None
     THEN sending' = sending \cup {Draft} /\ latest' = Draft.n /\ UNCHANGED encrypting
     ELSE encrypting' = encrypting \cup {Draft} /\ UNCHANGED <<sending, latest>>

Encrypted(p) ==
  /\ p \in encrypting
  /\ encrypting' = encrypting \ {p}
  /\ sending' = sending \cup {p}
  /\ latest' = IF p.own THEN p.n ELSE latest
  /\ UNCHANGED <<client, key_vars, draft, submits, fails, posted, typing_vars, history>>

MobileSubmits ==
  /\ Mobile /\ Submitted
  /\ sending' = sending \cup {Draft} /\ latest' = Draft.n
  /\ UNCHANGED encrypting

\* onSuccess clears the composer, whatever is in it by now.
SendSucceeds(p) ==
  /\ p \in sending
  /\ sending' = sending \ {p}
  /\ posted' = posted \cup {p}
  /\ IF p.own
     THEN /\ text' = 0 /\ att' = NoAttachment
          /\ lost' = lost \cup ({text} \ {0, p.draft}) \cup ({att.file} \ {None, p.file})
     ELSE UNCHANGED <<text, att, lost>>
  /\ UNCHANGED <<client, key_vars, edits, uploads, encrypting, latest, submits, fails, typing_vars,
                 late, removed, overlap, doubled>>

\* An error or no answer: the draft stays.  The message may be stored all the
\* same, and a new try has a new client_message_id.
SendFails(p, stored) ==
  /\ p \in sending /\ fails < MaxFails
  /\ fails' = fails + 1
  /\ sending' = sending \ {p}
  /\ posted' = IF stored THEN posted \cup {p} ELSE posted
  /\ doubled' = IF stored THEN doubled \cup {Content(p)} ELSE doubled
  /\ UNCHANGED <<client, key_vars, draft, encrypting, latest, submits, typing_vars,
                 late, lost, removed, overlap>>

ComposerNext ==
  \/ \E c \in Chats : WebOpens(c) \/ MobileOpens(c)
  \/ Leaves
  \/ \E c \in Direct : WebKeyDerived(c) \/ MobileKeyDerived(c) \/ KeyNotDerived(c)
  \/ Types \/ Empties \/ TypingTimerFires
  \/ \E c \in Chats : StrayFires(c)
  \/ \E f \in Files : Picks(f) \/ WebUploaded(f) \/ MobileUploaded(f) \/ UploadFails(f)
  \/ Removes
  \/ WebSubmits \/ MobileSubmits
  \/ \E p \in encrypting : Encrypted(p)
  \/ \E p \in sending : SendSucceeds(p)
  \/ \E p \in sending, stored \in BOOLEAN : SendFails(p, stored)

ComposerSpec == ComposerInit /\ [][ComposerNext]_composer_vars

-----------------------------------------------------------------------------
(* Properties                                                              *)

\* Once the key of the open chat is derived, no late derivation replaces it;
\* what is posted from then on is encrypted for the chat it is posted to,
\* unless that chat was left during the encryption, and nothing is encrypted
\* in a group.  (Before that it goes in the clear, or under the key of the
\* chat that was open before.)
KeyFits ==
  /\ derived => key = chat
  /\ \A p \in posted : ~p.crossed =>
       /\ p.derived => p.key = p.to
       /\ p.to \notin Direct => p.key = None

\* A posted file is the one named in the message, and on the mobile client
\* one the user did not remove, unless two uploads were under way at once.
\* (The web client may name what it then uploaded, the mobile client not.)
AttachmentFits ==
  \A p \in posted :
    /\ Web \/ ~overlap => p.id = p.file
    /\ Mobile /\ ~overlap => p.file \notin removed

PayloadFits == ComposerTypeOK /\ KeyFits /\ AttachmentFits

\* A draft stays until it is sent, and is sent once, in spite of failures,
\* unless it was typed while another message was on its way, submitted twice
\* while isPending overlooked the first message, or stored without an answer.
DraftsSentOnce ==
  /\ lost \subseteq late \cup removed \cup (IF overlap THEN Files ELSE {})
  /\ \A p, q \in posted : p # q /\ Content(p) = Content(q) => Content(p) \in doubled

\* Whoever was told that the user types will be told that it stopped, also
\* when the composer is left at once; unless the chat was switched meanwhile.
TypingWillStop ==
  announced \subseteq strays \cup abandoned \cup (IF isTyping THEN {timer} ELSE {})
=============================================================================
