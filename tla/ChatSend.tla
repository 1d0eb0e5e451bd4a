-------------------------------- MODULE ChatSend --------------------------------
(***************************************************************************)
(* How the channels of Telegram and Feishu hand an answer to their         *)
(* platform (Send and SendMedia of channels/telegram and channels/feishu), *)
(* under the retries of the channel manager (retryWithBackoff).  A call of *)
(* the platform is answered, refused, or carried out with its answer lost. *)
(* A file of an answer is an item of kind "file", its caption, which only  *)
(* Feishu sends on its own, one of kind "caption"; a text of Telegram is   *)
(* tried as "html", and then as "plain"; Feishu's texts are a "card".      *)
(***************************************************************************)
EXTENDS Integers, SequencesExt

CONSTANTS Platforms,
          Jobs,        \* answers: [text] or the parts of a media message
          MaxRetries   \* maxRetries

\* A part has a caption, a kind, and its file is there or gone; a text has no parts.
Parts == [image : BOOLEAN, caption : BOOLEAN, gone : BOOLEAN]
SendAssumption == Jobs \subseteq Seq(Parts) /\ MaxRetries \in Nat

VARIABLES
  platform, job,
  running,    \* whether the channel runs
  call,       \* the call under way: [pc, part, tries]
  delivered   \* history: what the chat shows, in order, as [part, kind]

vars == <<platform, job, running, call, delivered>>

IsText == job = <<>>
Item(part, kind) == [part |-> part, kind |-> kind]
At(pc) == call.pc = pc
Goes(pc) == call' = [call EXCEPT !.pc = pc]
FirstStep == IF IsText THEN IF platform = "telegram" THEN "html" ELSE "card" ELSE "part"

Init ==
  /\ platform \in Platforms /\ job \in Jobs /\ running = TRUE
  /\ call = [pc |-> "send", part |-> 1, tries |-> 0]
  /\ delivered = <<>>

\* The loop of the manager begins an attempt; a channel that does not run, ends it.
Attempt ==
  /\ At("send")
  /\ call' = IF running THEN [call EXCEPT !.pc = FirstStep, !.part = 1] ELSE [call EXCEPT !.pc = "lost"]
  /\ UNCHANGED <<platform, job, running, delivered>>

\* ErrTemporary: once more from the beginning, while there are retries left.
Retried == IF call.tries < MaxRetries THEN [call EXCEPT !.pc = "send", !.tries = @ + 1] ELSE [call EXCEPT !.pc = "lost"]

\* A message is created: shown and acknowledged, or not, or shown without an acknowledgement.
Creates(item, next, failed) ==
  /\ \/ delivered' = Append(delivered, item) /\ call' = next
     \/ delivered' = Append(delivered, item) /\ call' = failed
     \/ delivered' = delivered /\ call' = failed
  /\ UNCHANGED <<platform, job, running>>

\* Telegram falls back to plain text for every failure.
SendHTML == At("html") /\ Creates(Item(1, "text"), [call EXCEPT !.pc = "done"], [call EXCEPT !.pc = "plain"])
SendPlain == At("plain") /\ Creates(Item(1, "text"), [call EXCEPT !.pc = "done"], Retried)
SendCard == At("card") /\ Creates(Item(1, "text"), [call EXCEPT !.pc = "done"], Retried)

\* The next part; one whose file is gone is left out, and after the last the call is done.
NextPart == [call EXCEPT !.pc = "part", !.part = @ + 1]
Part ==
  /\ At("part")
  /\ call' = CASE call.part > Len(job) -> [call EXCEPT !.pc = "done"]
               [] call.part <= Len(job) /\ job[call.part].gone ->
                    IF platform = "feishu" THEN [call EXCEPT !.pc = "caption"] ELSE NextPart
               [] OTHER -> [call EXCEPT !.pc = IF platform = "feishu" THEN "upload" ELSE "file"]
  /\ UNCHANGED <<platform, job, running, delivered>>

SendTelegramPart ==
  /\ platform = "telegram" /\ At("file")
  /\ Creates(Item(call.part, "file"), NextPart, Retried)

\* Feishu wants a file uploaded before the message that shows it, and then sends the
\* caption as a text, also where the file was left out.
Upload(image) ==
  /\ At("upload") /\ job[call.part].image = image
  /\ \/ Goes("file")
     \/ call' = Retried
  /\ UNCHANGED <<platform, job, running, delivered>>
SendImage ==
  \/ Upload(TRUE)
  \/ At("file") /\ job[call.part].image
     /\ Creates(Item(call.part, "file"), [call EXCEPT !.pc = "caption"], Retried)
SendFile ==
  \/ Upload(FALSE)
  \/ At("file") /\ ~job[call.part].image
     /\ Creates(Item(call.part, "file"), [call EXCEPT !.pc = "caption"], Retried)

\* Send looks again whether the channel runs.  Mutant: a caption that fails is let be.
CaptionLetBe ==
  /\ At("caption")
  /\ IF ~job[call.part].caption
     THEN call' = NextPart /\ UNCHANGED <<platform, job, running, delivered>>
     ELSE Creates(Item(call.part, "caption"), NextPart, NextPart)
SendCaption ==
  /\ At("caption")
  /\ IF ~job[call.part].caption
     THEN call' = NextPart /\ UNCHANGED <<platform, job, running, delivered>>
     ELSE IF running THEN Creates(Item(call.part, "caption"), NextPart, Retried)
     ELSE Goes("lost") /\ UNCHANGED <<platform, job, running, delivered>>

Stop == running /\ running' = FALSE /\ UNCHANGED <<platform, job, call, delivered>>

Next ==
  \/ Attempt \/ SendHTML \/ SendPlain \/ SendCard \/ Part \/ SendTelegramPart
  \/ platform = "feishu" /\ (SendImage \/ SendFile \/ SendCaption)
  \/ Stop

Spec == Init /\ [][Next]_vars
-----------------------------------------------------------------------------
TypeOK ==
  /\ platform \in {"telegram", "feishu"} /\ job \in Jobs /\ running \in BOOLEAN
  /\ call \in [pc : {"send", "html", "plain", "card", "part", "upload", "file", "caption", "done", "lost"},
               part : 1 .. 9, tries : 0 .. MaxRetries]
  /\ delivered \in Seq([part : Nat, kind : {"text", "file", "caption"}])

\* What an answer consists of, in order.
Wanted ==
  IF IsText THEN <<Item(1, "text")>>
  ELSE FlattenSeq([i \in DOMAIN job |->
         (IF job[i].gone THEN <<>> ELSE <<Item(i, "file")>>)
           \o (IF platform = "feishu" /\ job[i].caption THEN <<Item(i, "caption")>> ELSE <<>>)])

\* What the manager takes for sent is there as a whole, in order and together, after what
\* failed attempts left; and a part is not shown without the parts before it (telegram.go
\* 262-291, 372-449; feishu_media.go 25-102).
SentAsAWhole ==
  /\ At("done") => IsSuffix(Wanted, delivered)
  /\ \A n \in DOMAIN delivered : \E k \in 1 .. n : IsPrefix(SubSeq(delivered, k, n), Wanted)

\* Refuted: nothing is shown twice.  A retry begins with the first part again, and the
\* plain text follows a failure whose message came through (telegram.go 275-283, 438-444).
ShownOnce == \A i, j \in DOMAIN delivered : delivered[i] = delivered[j] => i = j
================================================================================
