------------------------------- MODULE Message -------------------------------
(***************************************************************************)
(* sippet::Message (src/unnamed/part_000, message.cc).  A message is the   *)
(* canonical buffer raw_headers_ (normalized start line, normalized header *)
(* lines, a closing double null) and the index parsed_ built over it, one  *)
(* entry per header value, the second and later values of a coalescing     *)
(* header being continuations with an empty name.  Every mutation builds a *)
(* new input from the current message, clears both, and re-parses.         *)
(*                                                                         *)
(* Data is abstracted: a header name is its lower-case word plus whether   *)
(* it was spelled with capitals; a value is the sequence of its comma      *)
(* separated items, each of a syntactic kind; a start line is one of a few *)
(* forms.  Header lines are records [name, vals].                          *)
(***************************************************************************)
EXTENDS Integers, Sequences, SequencesExt

CONSTANTS
    Words,         \* lower-case spellings of header names ("via", "v", ...)
    HeaderInputs,  \* header lines a caller passes to AddHeader
    StartInputs,   \* start lines a caller passes to ReplaceStartLine
    InitInputs,    \* raw messages Message::Parse is given
    MaxLines,      \* bound on the header lines of a message
    MaxReceived    \* bound on the ;received= parameters of one Via value

VARIABLES
    raw,     \* raw_headers_ : [start, lines, closed]
    parsed,  \* parsed_ : the index entries, [name, vals]
    last     \* the last operation and what its ParseInternal returned

vars == <<raw, parsed, last>>

Name == [word : Words, upper : BOOLEAN]
NoName == [word |-> "", upper |-> FALSE]   \* name_begin == name_end

(* Value item kinds: a bare addr-spec, an addr-spec in angle brackets, an *)
(* unquoted display name with an address, a quoted display name with an   *)
(* address, two addresses (malformed), a bare token, a token opened with  *)
(* a quote that is never closed.                                          *)
Kinds == {"addr", "angle", "dname", "quoted", "dup", "tok", "open"}
Item == [k : Kinds, r : 0..MaxReceived]

StartForms == {"request", "REQUEST", "RESPONSE", "badversion",
               "METHOD_URI", "METHOD", ""}

(* SipUtil (not under src/): compact forms, contact-like and              *)
(* non-coalescing headers.                                                 *)
CompactForms == ("v" :> "via") @@ ("m" :> "contact") @@ ("f" :> "from")
ContactLikeWords == {"contact", "from", "to", "route", "record-route",
                     "reply-to"}
NonCoalescingWords == {"www-authenticate", "proxy-authenticate",
                       "authorization", "proxy-authorization"}

ExpandHeader(n) ==
    IF n.word \in DOMAIN CompactForms
    THEN [word |-> CompactForms[n.word], upper |-> TRUE]
    ELSE n

-----------------------------------------------------------------------------
(* Parsing.                                                                *)

(* ParseStartLine with ParseRequestLine / ParseStatusLine: the normalized  *)
(* start line on success; on failure what was already written to          *)
(* raw_headers_ (method and URI before the version is rejected, the       *)
(* method before a missing URI, nothing before a missing method).         *)
MutStartNoUpper(s) ==
    CASE s = "request" -> [ok |-> TRUE, start |-> "request"]
      [] s = "REQUEST"    -> [ok |-> TRUE, start |-> "REQUEST"]
      [] s = "RESPONSE"   -> [ok |-> TRUE, start |-> "RESPONSE"]
      [] s = "badversion" -> [ok |-> FALSE, start |-> "METHOD_URI"]
      [] s = "METHOD_URI" -> [ok |-> FALSE, start |-> "METHOD"]
      [] OTHER            -> [ok |-> FALSE, start |-> ""]

ParseStartLine(s) ==
    CASE s \in {"request", "REQUEST"} -> [ok |-> TRUE, start |-> "REQUEST"]
      [] s = "RESPONSE"   -> [ok |-> TRUE, start |-> "RESPONSE"]
      [] s = "badversion" -> [ok |-> FALSE, start |-> "METHOD_URI"]
      [] s = "METHOD_URI" -> [ok |-> FALSE, start |-> "METHOD"]
      [] OTHER            -> [ok |-> FALSE, start |-> ""]

(* What NormalizeContactLikeHeader writes for each kind of item.           *)
ContactForm ==
    ("addr" :> "angle") @@ ("angle" :> "angle") @@ ("dname" :> "quoted")
    @@ ("quoted" :> "quoted") @@ ("tok" :> "open") @@ ("open" :> "open")

(* NormalizeContactLikeHeader: items are rewritten one by one; a repeated *)
(* address fails, leaving the items before it written.                    *)
NormalizeContactLikeHeader(vals) ==
    LET bad  == SelectInSeq(vals, LAMBDA i : i.k = "dup")
        upto == IF bad = 0 THEN Len(vals) ELSE bad - 1
    IN  [ok   |-> bad = 0,
         vals |-> [j \in 1..upto |-> [vals[j] EXCEPT !.k = ContactForm[@]]]]

(* NormalizeHeaders: expand compact names, normalize contact-like values; *)
(* stops at the first failure with the lines written so far.              *)
RECURSIVE NormalizeHeaders(_, _)
NormalizeHeaders(done, rest) ==
    IF rest = <<>> THEN [ok |-> TRUE, lines |-> done]
    ELSE LET name == ExpandHeader(Head(rest).name)
             v    == IF name.word \in ContactLikeWords
                     THEN NormalizeContactLikeHeader(Head(rest).vals)
                     ELSE [ok |-> TRUE, vals |-> Head(rest).vals]
             line == [name |-> name, vals |-> v.vals]
         IN  IF v.ok THEN NormalizeHeaders(Append(done, line), Tail(rest))
             ELSE [ok |-> FALSE, lines |-> Append(done, line)]

MutIndexNoClobber(l) ==
    IF l.vals = <<>> \/ l.name.word \in NonCoalescingWords
    THEN <<l>>
    ELSE [i \in 1..Len(l.vals) |-> [name |-> l.name, vals |-> <<l.vals[i]>>]]

(* AddHeader(iterators) / AddToParsed: the index entries of one line.      *)
IndexEntries(l) ==
    IF l.vals = <<>> \/ l.name.word \in NonCoalescingWords
    THEN <<l>>
    ELSE [i \in 1..Len(l.vals) |->
            [name |-> IF i = 1 THEN l.name ELSE NoName, vals |-> <<l.vals[i]>>]]

(* ParseInternal: the new raw_headers_, parsed_ and the result.  On       *)
(* failure the buffer holds what was written and the index stays empty.   *)
ParseInternal(in) ==
    LET s == ParseStartLine(in.start)
        h == NormalizeHeaders(<<>>, in.lines)
    IN  IF ~s.ok
        THEN [ok |-> FALSE, parsed |-> <<>>,
              raw |-> [start |-> s.start, lines |-> <<>>, closed |-> FALSE]]
        ELSE [ok |-> h.ok,
              parsed |-> IF h.ok
                         THEN FlattenSeq([i \in 1..Len(h.lines) |->
                                            IndexEntries(h.lines[i])])
                         ELSE <<>>,
              raw |-> [start |-> s.start, lines |-> h.lines, closed |-> h.ok]]

-----------------------------------------------------------------------------
(* Header access over parsed_.  Indices are 1-based; 0 stands for npos.   *)

(* FindHeader: the first non-continuation entry from `from` on whose name *)
(* matches case-insensitively.                                             *)
FindHeader(p, from, n) ==
    SelectInSubSeq(p, from, Len(p),
                   LAMBDA e : e.name # NoName /\ e.name.word = n.word)

(* The position after the continuations of the entry at i.                 *)
ContinuationEnd(p, i) ==
    CHOOSE k \in i + 1..Len(p) + 1 :
        /\ k > Len(p) \/ p[k].name # NoName
        /\ \A j \in i + 1..k - 1 : p[j].name = NoName

(* EnumerateHeaderLines (and the walk of MergeWithMessage): every logical *)
(* header line with the values of its continuations put back together.    *)
RECURSIVE HeaderLinesFrom(_, _)
HeaderLinesFrom(p, i) ==
    IF i > Len(p) THEN <<>>
    ELSE LET k == ContinuationEnd(p, i)
         IN  << [name |-> p[i].name,
                 vals |-> FlattenSeq([j \in 1..k - i |-> p[i + j - 1].vals])] >>
             \o HeaderLinesFrom(p, k)

EnumerateHeaderLines(p) == HeaderLinesFrom(p, 1)

MutEnumerateSkipContinuation(p, n, iter) ==
    IF iter = 0 THEN FindHeader(p, 1, n)
    ELSE IF iter > Len(p) THEN 0
    ELSE FindHeader(p, iter, n)

(* One EnumerateHeader call: the entry it yields for `iter` (0 on the     *)
(* first call), or 0 when it returns false.  It yields a continuation     *)
(* right after the entry before it, and otherwise searches by name.       *)
EnumerateHeader(p, n, iter) ==
    IF iter = 0 THEN FindHeader(p, 1, n)
    ELSE IF iter > Len(p) THEN 0
    ELSE IF p[iter].name # NoName THEN FindHeader(p, iter, n)
    ELSE iter

(* The loop callers run: EnumerateHeader until it returns false.           *)
RECURSIVE EnumerateValues(_, _, _)
EnumerateValues(p, n, iter) ==
    LET i == EnumerateHeader(p, n, iter)
    IN  IF i = 0 THEN <<>> ELSE p[i].vals \o EnumerateValues(p, n, i + 1)

-----------------------------------------------------------------------------
(* Mutations: each builds the input of the next ParseInternal from the    *)
(* current message m = [raw, parsed].                                      *)

Msg == [raw |-> raw, parsed |-> parsed]

(* GetStartLine: raw_headers_ up to its first null.                        *)
GetStartLine(m) == m.raw.start

(* MergeWithMessage: the start line, then every logical line of the index *)
(* whose lower-cased name is not to be removed, re-parsed.                 *)
MergeWithMessage(start, toRemove, m) ==
    ParseInternal([start |-> start,
                   lines |-> SelectSeq(EnumerateHeaderLines(m.parsed),
                                       LAMBDA l : l.name.word \notin toRemove)])

(* AddHeader(header): the current buffer, the new line appended.           *)
AddHeaderResult(m, h) ==
    ParseInternal([start |-> m.raw.start, lines |-> Append(m.raw.lines, h)])

RemoveHeaderResult(m, n) == MergeWithMessage(GetStartLine(m), {n.word}, m)

RemoveHeadersResult(m, ns) ==
    MergeWithMessage(GetStartLine(m), {n.word : n \in ns}, m)

(* RemoveHeaderLine: drops every line whose name matches and whose whole  *)
(* value is exactly v.                                                     *)
RemoveHeaderLineResult(m, n, v) ==
    ParseInternal([start |-> GetStartLine(m),
                   lines |-> SelectSeq(EnumerateHeaderLines(m.parsed),
                               LAMBDA l : ~(l.name.word = n.word /\ l.vals = v))])

ReplaceStartLineResult(m, s) == MergeWithMessage(s, {}, m)

(* SetViaReceived appends ";received=" to the text of the first logical   *)
(* Via line: the parameter lands on the last value of that line.           *)
AppendReceived(vals) == [vals EXCEPT ![Len(vals)].r = @ + 1]

SetViaReceivedResult(m) ==
    LET ls == EnumerateHeaderLines(m.parsed)
        i  == SelectInSeq(ls, LAMBDA l : l.name.word = "via")
    IN  ParseInternal([start |-> GetStartLine(m),
                       lines |-> IF i = 0 THEN ls
                                 ELSE [ls EXCEPT ![i].vals = AppendReceived(@)]])

-----------------------------------------------------------------------------
(* The specification.                                                      *)

Apply(res, op) ==
    /\ raw' = res.raw
    /\ parsed' = res.parsed
    /\ last' = [op |-> op, ok |-> res.ok]

(* Message::Parse returns a message only when ParseInternal succeeds.      *)
Init ==
    \E in \in InitInputs :
        LET res == ParseInternal(in)
        IN  /\ res.ok
            /\ raw = res.raw
            /\ parsed = res.parsed
            /\ last = [op |-> "Parse", ok |-> TRUE]

(* The DCHECKs of AddHeader require the buffer to end with a double null. *)
AddHeader(h) ==
    /\ raw.closed
    /\ Len(raw.lines) < MaxLines
    /\ Apply(AddHeaderResult(Msg, h), "AddHeader")

RemoveHeader(n) == Apply(RemoveHeaderResult(Msg, n), "RemoveHeader")

RemoveHeaders(ns) == Apply(RemoveHeadersResult(Msg, ns), "RemoveHeaders")

RemoveHeaderLine(n, v) ==
    Apply(RemoveHeaderLineResult(Msg, n, v), "RemoveHeaderLine")

ReplaceStartLine(s) ==
    Apply(ReplaceStartLineResult(Msg, s), "ReplaceStartLine")

(* So do those of SetViaReceived.                                         *)
SetViaReceived ==
    LET res == SetViaReceivedResult(Msg)
    IN  /\ raw.closed
        /\ \A l \in ToSet(res.raw.lines) :
              \A j \in DOMAIN l.vals : l.vals[j].r <= MaxReceived
        /\ Apply(res, "SetViaReceived")

LowerNames == {[word |-> w, upper |-> FALSE] : w \in Words}

Next ==
    \/ \E h \in HeaderInputs : AddHeader(h)
    \/ \E n \in Name : RemoveHeader(n)
    \/ \E ns \in SUBSET LowerNames : RemoveHeaders(ns)
    \/ \E n \in Name, l \in ToSet(EnumerateHeaderLines(parsed)) :
          RemoveHeaderLine(n, l.vals)
    \/ \E s \in StartInputs : ReplaceStartLine(s)
    \/ SetViaReceived

Spec == Init /\ [][Next]_vars

-----------------------------------------------------------------------------
(* Properties.                                                             *)

(* raw_headers_ only ever starts with what ParseStartLine writes: a       *)
(* normalized (upper-cased) start line or the part written before a       *)
(* rejection; parsed_ holds entries over header names.                    *)
TypeOK ==
    /\ raw.start \in {"REQUEST", "RESPONSE", "METHOD_URI", "METHOD", ""}
    /\ raw.closed \in BOOLEAN
    /\ \A i \in DOMAIN raw.lines :
          raw.lines[i].name \in Name /\ ToSet(raw.lines[i].vals) \subseteq Item
    /\ \A i \in DOMAIN parsed :
          parsed[i].name \in Name \cup {NoName}
          /\ ToSet(parsed[i].vals) \subseteq Item
    /\ last.ok \in BOOLEAN

(* After a successful parse, walking parsed_ the way EnumerateHeaderLines *)
(* and MergeWithMessage do (an entry and its continuations) gives back    *)
(* exactly the header lines of raw_headers_: the index built by           *)
(* AddHeader/AddToParsed and the walk that every mutation relies on are   *)
(* inverse, whatever sequence of mutations produced the message.          *)
HeaderLinesInvertIndex ==
    last.ok => EnumerateHeaderLines(parsed) = raw.lines

(* After a successful parse, calling EnumerateHeader(&iter, name) until   *)
(* it returns false yields, in order, every value of every line of that   *)
(* name in raw_headers_ (continuations included, spec 4.2).               *)
EnumerateHeaderYieldsValues ==
    last.ok =>
        \A n \in LowerNames :
            LET ls == SelectSeq(raw.lines, LAMBDA l : l.name.word = n.word)
            IN  EnumerateValues(parsed, n, 0)
                    = FlattenSeq([i \in 1..Len(ls) |-> ls[i].vals])

(* Spec 4.2: a mutation whose re-parse fails leaves the message           *)
(* unchanged.  AddHeader, RemoveHeader(s), RemoveHeaderLine,              *)
(* ReplaceStartLine and SetViaReceived clear raw_headers_ and parsed_     *)
(* before calling ParseInternal.                                           *)
MutationAtomic ==
    [][~last'.ok => raw' = raw /\ parsed' = parsed]_vars

=============================================================================
