------------------------------- MODULE Templates -------------------------------
(***************************************************************************)
(* Rendering: src/services/email/emailTemplates.ts, whose templates are    *)
(* registered by name, and src/helpers/templateHelpers.ts, which caches    *)
(* files.                                                                  *)
(*                                                                         *)
(* A text is a sequence of pieces: plain "text", the brackets of a tag,    *)
(* between which anything may lie, {{key}} ("var"), {{key|text}}           *)
(* ("default"), {{#if key}} ("if") and {{/if}}.                            *)
(***************************************************************************)
EXTENDS Integers, Sequences, SequencesExt

CONSTANTS
  Names,        \* names of templates and of their files
  Keys,         \* names of variables
  Sources,      \* texts a template may have, none of them empty
  Assignments,  \* variables a caller may pass: the value of each key
  MaxEdits      \* bound on changes of the files

Pieces == [is : {"text", "<", ">", "endif"}, key : {"none"}]
            \union [is : {"var", "default", "if"}, key : Keys]
NoText == <<>>

ASSUME TemplatesAssumption ==
  /\ MaxEdits \in Nat
  /\ Sources \subseteq Seq(Pieces) \ {NoText}
  /\ Assignments \subseteq [Keys -> [defined : BOOLEAN, truthy : BOOLEAN, text : Seq(Pieces)]]

Text == [is |-> "text", key |-> "none"]

\* undefined, a falsy value that prints as something, or another value; a value
\* may itself contain placeholders.
Value(defined, truthy, text) == [defined |-> defined, truthy |-> truthy, text |-> text]

VARIABLES
  registered,  \* email templates: the texts of each, of which some are missing
  files,       \* the template files
  fileCache,   \* files held in memory
  edits,
  recent,      \* history: versions of each file since the cache was cleared
  shown        \* what the last step has rendered

templateVars == <<registered, files, fileCache, edits, recent, shown>>

Missing == [subject |-> NoText, html |-> NoText, text |-> NoText]
Nothing == [by |-> "none", of |-> Missing, with |-> <<>>, as |-> Missing]

TemplatesInit ==
  /\ registered = [n \in Names |-> Missing]
  /\ files \in [Names -> Sources]
  /\ fileCache = [n \in Names |-> NoText]
  /\ edits = 0
  /\ recent = [n \in Names |-> {files[n]}]
  /\ shown = Nothing

-----------------------------------------------------------------------------
Each(s, Op(_)) == FlattenSeq([i \in DOMAIN s |-> Op(s[i])])

SubstituteVariables(s, variables) ==
  Each(s, LAMBDA p : IF p.is = "var" /\ variables[p.key].defined
                     THEN variables[p.key].text ELSE <<p>>)

\* A match of a regular expression is held back until it is complete.
Carried(acc, p) == IF acc.held = <<>> THEN [acc EXCEPT !.out = Append(@, p)]
                                      ELSE [acc EXCEPT !.held = Append(@, p)]

\* A tag reaches from a "<" to the next ">", with something between the two.
TagStep(acc, p) ==
  CASE p.is = "<" /\ acc.held = <<>> -> [acc EXCEPT !.held = <<p>>]
    [] p.is = ">" /\ acc.held # <<>> ->
         [out  |-> IF Len(acc.held) > 1 THEN acc.out ELSE acc.out \o acc.held \o <<p>>,
          held |-> <<>>]
    [] OTHER -> Carried(acc, p)

HtmlToPlainText(s) ==
  LET after[n \in 0 .. Len(s)] ==
        IF n = 0 THEN [out |-> <<>>, held |-> <<>>] ELSE TagStep(after[n - 1], s[n])
  IN  after[Len(s)].out \o after[Len(s)].held

\* An {{#if}} goes with the first {{/if}} behind it, whatever lies between.
BlockStep(acc, p, variables) ==
  CASE p.is = "if" /\ acc.held = <<>> -> [acc EXCEPT !.held = <<p>>]
    [] p.is = "endif" /\ acc.held # <<>> ->
         [out  |-> IF variables[acc.held[1].key].truthy THEN acc.out \o Tail(acc.held) ELSE acc.out,
          held |-> <<>>]
    [] OTHER -> Carried(acc, p)

Blocks(s, variables) ==
  LET after[n \in 0 .. Len(s)] ==
        IF n = 0 THEN [out |-> <<>>, held |-> <<>>] ELSE BlockStep(after[n - 1], s[n], variables)
  IN  after[Len(s)].out \o after[Len(s)].held

Defaults(s, variables) ==
  Each(s, LAMBDA p : IF p.is # "default" THEN <<p>>
                     ELSE IF variables[p.key].defined THEN variables[p.key].text ELSE <<Text>>)

\* renderTemplate of templateHelpers.ts: three passes, each over the last one's result.
Rendered(s, variables) ==
  SubstituteVariables(Defaults(Blocks(s, variables), variables), variables)

-----------------------------------------------------------------------------
\* The subject is a text like the others.
RegisterTemplate(n, html, text) ==
  /\ registered' = [registered EXCEPT ![n] = [subject |-> html, html |-> html, text |-> text]]
  /\ shown' = Nothing
  /\ UNCHANGED <<files, fileCache, edits, recent>>

\* Every file replaces the template of its name, and has no text.
LoadTemplatesFromDirectory ==
  /\ registered' = [n \in Names |-> [subject |-> <<Text>>, html |-> files[n], text |-> NoText]]
  /\ shown' = Nothing
  /\ UNCHANGED <<files, fileCache, edits, recent>>

\* renderTemplate of emailTemplates.ts; it throws if there is no such template.
RenderEmail(n, variables) ==
  LET t == registered[n]
  IN  /\ t # Missing
      /\ shown' = [by |-> "email", of |-> t, with |-> variables,
                   as |-> [subject |-> SubstituteVariables(t.subject, variables),
                           html |-> SubstituteVariables(t.html, variables),
                           text |-> IF t.text # NoText THEN SubstituteVariables(t.text, variables)
                                                       ELSE HtmlToPlainText(t.html)]]
      /\ UNCHANGED <<registered, files, fileCache, edits, recent>>

LoadTemplate(n) == IF fileCache[n] # NoText THEN fileCache[n] ELSE files[n]

RenderTemplateFile(n, variables) ==
  /\ fileCache' = [fileCache EXCEPT ![n] = LoadTemplate(n)]
  /\ shown' = [by |-> "file", of |-> [Missing EXCEPT !.text = LoadTemplate(n)],
               with |-> variables,
               as |-> [Missing EXCEPT !.text = Rendered(LoadTemplate(n), variables)]]
  /\ UNCHANGED <<registered, files, edits, recent>>

ClearTemplateCache ==
  /\ fileCache' = [n \in Names |-> NoText]
  /\ recent' = [n \in Names |-> {files[n]}]
  /\ shown' = Nothing
  /\ UNCHANGED <<registered, files, edits>>

\* A file is changed on disk.
EditFile(n, s) ==
  /\ edits < MaxEdits /\ edits' = edits + 1
  /\ files' = [files EXCEPT ![n] = s]
  /\ recent' = [recent EXCEPT ![n] = @ \union {s}]
  /\ shown' = Nothing
  /\ UNCHANGED <<registered, fileCache>>

TemplatesNext ==
  \/ \E n \in Names :
       \/ \E html \in Sources, text \in Sources \union {NoText} : RegisterTemplate(n, html, text)
       \/ \E variables \in Assignments : RenderEmail(n, variables) \/ RenderTemplateFile(n, variables)
       \/ \E s \in Sources : EditFile(n, s)
  \/ LoadTemplatesFromDirectory
  \/ ClearTemplateCache

TemplatesSpec == TemplatesInit /\ [][TemplatesNext]_templateVars

TemplatesTypeOK ==
  /\ \A n \in Names : registered[n].html \in Sources \union {NoText}
  /\ files \in [Names -> Sources]
  /\ fileCache \in [Names -> Sources \union {NoText}]
  /\ edits \in 0 .. MaxEdits
  /\ shown.by \in {"none", "email", "file"}

-----------------------------------------------------------------------------
\* A cached file is one the disk has had since the cache was last cleared.
CacheIsRecent == \A n \in Names : fileCache[n] \in recent[n] \union {NoText}

Uses(s, kind) == {p \in ToSet(s) : p.is = kind}
Plain(variables) == \A k \in DOMAIN variables : ToSet(variables[k].text) \subseteq {Text}
\* Every {{#if}} is followed by an {{/if}} and every {{/if}} preceded by an {{#if}},
\* with no marker between the two.
Flat(s) ==
  LET marks == {i \in DOMAIN s : s[i].is \in {"if", "endif"}}
      block(i, k) == /\ i < k /\ s[i].is = "if" /\ s[k].is = "endif"
                     /\ \A j \in marks : ~ (i < j /\ j < k)
  IN  \A m \in marks : \E k \in marks : block(m, k) \/ block(k, m)

\* A rendered file holds every value as it was passed, unless it was passed for
\* {{key|text}}, whose placeholders are filled in turn; and no marker of a block,
\* unless blocks were nested or left open.
FilesRendered ==
  shown.by = "file" =>
    LET s == shown.of.text
        once == Each(Blocks(s, shown.with),
                     LAMBDA p : IF p.is = "var" THEN SubstituteVariables(<<p>>, shown.with)
                                                ELSE Defaults(<<p>>, shown.with))
    IN  /\ Uses(s, "default") = {} \/ Plain(shown.with) => shown.as.text = once
        /\ Flat(s) /\ Plain(shown.with) =>
             Uses(shown.as.text, "if") \union Uses(shown.as.text, "endif") = {}

\* The piece at i lies within a tag.
InTag(s, i) ==
  \E first \in 1 .. i - 1, last \in i + 1 .. Len(s) :
     /\ s[first].is = "<" /\ s[last].is = ">"
     /\ \A j \in first + 1 .. last - 1 : s[j].is # ">"

\* No email leaves a variable unfilled that was passed as plain text, except that a
\* text made from the HTML does, and shows those that lie outside of its tags: what
\* lies within one, as the link of a password reset, is gone with it.
EmailsRendered ==
  shown.by = "email" =>
    LET unfilled(s) == {p \in Uses(s, "var") : shown.with[p.key].defined}
        html == shown.of.html
        outside == {html[i] : i \in {k \in DOMAIN html : html[k].is = "var" /\ ~ InTag(html, k)}}
    IN  /\ Plain(shown.with) => unfilled(shown.as.subject) \union unfilled(shown.as.html) = {}
        /\ IF shown.of.text # NoText THEN Plain(shown.with) => unfilled(shown.as.text) = {}
           ELSE Uses(shown.as.text, "var") = outside
=============================================================================
