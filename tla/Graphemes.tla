----------------------------- MODULE Graphemes -----------------------------
(***************************************************************************)
(* grapheme_clusters of app/core/graphemes.py: how the length of a contest *)
(* reason is counted.  One step is one round of its loop, and the next     *)
(* character of the text is chosen when the loop comes to it, so that the  *)
(* states are the prefixes of all texts.                                   *)
(*                                                                         *)
(* A character is the class the rules see in it.  Classes overlap as the   *)
(* ranges in the code do: its pictographic ranges take in the emoji        *)
(* ("pict") and, beside them, the regional indicators, the skin tones and  *)
(* other combining marks such as U+20E3 ("modifier"), the Hangul tone      *)
(* marks ("tone"), the word joiner ("joiner") and everything else between  *)
(* U+203C and U+3299, kana and arrows for instance ("symbol").  In all     *)
(* else the tables of the code are taken to be the standard's.             *)
(***************************************************************************)
EXTENDS Integers, Sequences

CONSTANT MaxText  \* bound: the length of a text

Control == {"cr", "lf", "control", "joiner"}
Extend == {"extend", "modifier"}
SpacingMark == {"spacing", "tone"}
Pictographic == {"pict", "ri", "modifier", "tone", "joiner", "symbol"}
Chars == Control \cup Extend \cup SpacingMark \cup Pictographic \cup
           {"l", "v", "t", "lv", "lvt", "zwj", "prepend", "other"}

VARIABLES
  text,     \* the characters the loop has been through
  starts,   \* where in text clusters begin; the last one is `current`
  pending,  \* pictographic_pending
  run       \* regional_run

scan == <<text, starts, pending, run>>

ScanInit == text = <<>> /\ starts = {} /\ pending = FALSE /\ run = 0

(***************************************************************************)
(* GB6 to GB9b: the rules that look at two neighbours only.                *)
(***************************************************************************)
Attached(previous, current) ==
  \/ previous = "l" /\ current \in {"l", "v", "lv", "lvt"}
  \/ previous \in {"v", "lv"} /\ current \in {"v", "t"}
  \/ previous \in {"t", "lvt"} /\ current = "t"
  \/ current \in Extend \cup {"zwj"} \cup SpacingMark
  \/ previous = "prepend"

(***************************************************************************)
(* _breaks_between: the first rule that applies decides.                   *)
(***************************************************************************)
BreaksBetween(previous, current) ==
  /\ ~ (previous = "cr" /\ current = "lf")
  /\ \/ previous \in Control \/ current \in Control
     \/ /\ ~ Attached(previous, current)
        /\ ~ (previous = "zwj" /\ pending /\ current \in Pictographic)
        /\ ~ (previous = "ri" /\ current = "ri" /\ run % 2 = 1)

(* Mutant: any character between forgets the pictograph. *)
PendingWithinForgetful(c) == c \in Pictographic \/ (pending /\ c = "zwj")

PendingWithin(c) == c \in Pictographic \/ (pending /\ c \in Extend \cup {"zwj"})

One(c) == IF c = "ri" THEN 1 ELSE 0

Begin(c) ==
  /\ starts' = starts \cup {Len(text) + 1}
  /\ pending' = (c \in Pictographic)
  /\ run' = One(c)

Continue(c) ==
  /\ pending' = PendingWithin(c)
  /\ run' = run + One(c)
  /\ UNCHANGED starts

ScanChar(c) ==
  /\ text' = Append(text, c)
  /\ IF text = <<>> \/ BreaksBetween(text[Len(text)], c) THEN Begin(c) ELSE Continue(c)

ScanNext == Len(text) < MaxText /\ \E c \in Chars : ScanChar(c)

ScanSpec == ScanInit /\ [][ScanNext]_scan

-----------------------------------------------------------------------------
(* Properties. *)

ScanTypeOK ==
  /\ text \in Seq(Chars)
  /\ starts \subseteq 1 .. Len(text)
  /\ pending \in BOOLEAN
  /\ run \in Nat

(***************************************************************************)
(* The rules of UAX #29, by the standard's own classes, where a pictograph *)
(* is an emoji and a tone mark a mark like any other.  They look back over *)
(* the whole text: for an emoji sequence (GB11), and for an odd number of  *)
(* regional indicators (GB12, GB13).                                       *)
(***************************************************************************)
Marks == {"extend", "modifier", "tone"}

EmojiBefore(t, n) ==
  \E j \in 1 .. n : t[j] = "pict" /\ \A k \in j + 1 .. n : t[k] \in Marks

IsRun(t, n, m) ==
  /\ \A k \in n - m + 1 .. n : t[k] = "ri"
  /\ m < n => t[n - m] # "ri"

OddRun(t, n) == \E m \in 1 .. n : m % 2 = 1 /\ IsRun(t, n, m)

Syllable ==
  ({"l"} \X {"l", "v", "lv", "lvt"}) \cup ({"lv", "v"} \X {"v", "t"}) \cup
    ({"lvt", "t"} \X {"t"})

RuleBreaks(t, i) ==
  /\ <<t[i - 1], t[i]>> # <<"cr", "lf">>
  /\ \/ t[i - 1] \in Control \/ t[i] \in Control
     \/ /\ <<t[i - 1], t[i]>> \notin Syllable
        /\ t[i] \notin Marks \cup {"zwj", "spacing"}
        /\ t[i - 1] # "prepend"
        /\ ~ (t[i - 1] = "zwj" /\ t[i] = "pict" /\ EmojiBefore(t, i - 2))
        /\ ~ (t[i] = "ri" /\ OddRun(t, i - 1))

(***************************************************************************)
(* Texts whose zero-width joiners stand where the code and the standard    *)
(* read them alike.  One that follows an emoji and its marks is not itself *)
(* followed by a regional indicator or a symbol, which the code joins too; *)
(* any other follows nothing, or something outside the pictographic        *)
(* ranges: the code lets a flag, a symbol or a mark of those ranges begin  *)
(* an emoji sequence as well, and joiners be repeated within one.          *)
(***************************************************************************)
Plain == Chars \ ((Pictographic \ Control) \cup Marks \cup {"zwj"})

PlainBefore(t, n) ==
  \E j \in 0 .. n :
    /\ j > 0 => t[j] \in Plain
    /\ \A k \in j + 1 .. n : t[k] \in {"extend", "zwj"}

Joining(t) ==
  \A m \in 1 .. Len(t) : t[m] = "zwj" =>
    \/ EmojiBefore(t, m - 1) /\ (m < Len(t) => t[m + 1] \notin {"ri", "symbol"})
    \/ PlainBefore(t, m - 1)

(***************************************************************************)
(* In such texts grapheme_clusters begins a cluster exactly where UAX #29  *)
(* does, over the classes above, although its loop remembers two values    *)
(* and never looks back.                                                   *)
(***************************************************************************)
BreaksByTheRules ==
  Joining(text) =>
    \A i \in 1 .. Len(text) : i \in starts <=> i = 1 \/ RuleBreaks(text, i)
=============================================================================
