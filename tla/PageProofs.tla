----------------------------- MODULE PageProofs -----------------------------
(*************************************************************************)
(* What holds of what the client shows: the forms of the settings, the   *)
(* lists, the payroll page and the notification settings; for any        *)
(* entries, runs and requests at one time.                               *)
(*************************************************************************)
EXTENDS SettingsForms, ClientLists, PayrollScreen, NotificationForms, TLAPS

(*************************************************************************)
(* The forms of the settings.  What a form shows of a section is what is *)
(* stored, but for what its own save is about to store, and a save sends *)
(* back nothing it has not been told.                                    *)
(*************************************************************************)

\* What is shown of a section, as far as it is what is stored of it.
Agrees(s, shown, kept) ==
    /\ shown.plain = kept.plain
    /\ s = "integrations" => shown.special \in {kept.special} \cup Masks

\* Of all sections in use.
AgreesAll(all) == \A s \in inUse : Agrees(s, all[s], stored[s])

\* What is shown or sent was stored before.
NothingAbsent ==
    provided # Unloaded \/ loading # Unloaded \/ (\E h \in Handler : save[h].at = "sent") =>
        \A s \in inUse : stored[s] # Absent

\* What a save says is what is shown of its section; the rest, and what was shown before it,
\* is what is stored.
SaveShown(h) ==
    /\ saving = h /\ page = save[h].section /\ page # "none"
    /\ provided # Unloaded
    /\ save[h].at \in {"sent", "refused"} =>
        /\ save[h].heard /\ AgreesAll(save[h].previous)
        /\ provided[page] = save[h].data
        /\ \A s \in inUse \ {page} : Agrees(s, provided[s], stored[s])
    /\ save[h].at = "written" => AgreesAll(provided)

\* Without overlap.
FormCalmInv ==
    calm =>
        /\ \A g, h \in Handler : save[g].at # "idle" /\ save[h].at # "idle" => g = h
        /\ \A h \in Handler : save[h].at # "ended" /\ (save[h].at # "idle" => SaveShown(h))
        /\ loading # Unloaded => AgreesAll(loading)
        /\ Quiet /\ provided # Unloaded => AgreesAll(provided)

\* What is so in any case of the page that is open.
FormRest ==
    /\ loading # Unloaded => provided = Unloaded
    /\ dirty => page # "none"
    /\ page # "none" /\ ~dirty => form = provided[page]
    /\ \A h \in Handler : save[h].heard => provided # Unloaded

\* Types, the key that is kept, and what is so without overlap.
FormInv == FormTypeOK /\ KeyKept /\ NothingAbsent /\ FormRest /\ FormCalmInv

\* It implies what the run checks.
LEMMA FormImplied == FormInv => FormsSound
  BY DEF FormInv, FormsSound, ShownExists, NothingAbsent, ShownIsStored, FormRest, FormCalmInv,
     AgreesAll, Agrees

\* No save changes what kind of history it is.
LEMMA FormCalm == FormNext => calm' = calm
  BY DEF FormNext, GetSettings, Loaded, LoadAnew, Cancel, OpenPage, OtherClient, CompanyEdit,
     SecurityEdit, PayrollEdit, PayslipEdit, AllowanceEdit, AttendanceEdit, ShiftEdit,
     IntegrationEdit, UpdateShown, UpdateSettings, RefuseSettings, Saved, TakenBack, EditPlain,
     EditRowInPlace, EditRowList, EditKey

\* What a section can say.
LEMMA ContentsAny == \A s \in Section : Contents(s) \subseteq Anything
  BY DEF Anything

\* A section with another plain or another special part.
LEMMA OtherPlain ==
  ASSUME NEW s, NEW c \in Contents(s)
  PROVE  /\ [c EXCEPT !.plain = 3 - @] \in Contents(s)
         /\ c.plain \in {1, 2} /\ c.special \in Special(s)
  BY DEF Contents

\* A section with another special part.
LEMMA OtherSpecial ==
  ASSUME NEW s, NEW c \in Contents(s), NEW x \in Special(s)
  PROVE  /\ [c EXCEPT !.special = x] \in Contents(s)
         /\ [c EXCEPT !.special = x].plain = c.plain
         /\ [c EXCEPT !.special = x].special = x
  BY DEF Contents

\* What a section says is something.
LEMMA NeverAbsent == \A s : Absent \notin Contents(s)
  BY DEF Absent, Contents

\* Defaults are such contents, and no masks.
LEMMA DefaultFits ==
  ASSUME NEW s \in Section
  PROVE  Default(s) \in Contents(s) /\ Default(s).special \notin Masks
  BY DEF Section, Default, Contents, Special, Masks, Keys

\* Sections that were loaded are not unloaded.
LEMMA LoadedIsSome == \A all \in [inUse -> Anything] : inUse # {} => all # Unloaded
  BY DEF Unloaded

\* No save is one.
LEMMA NoSaveFits == NoSave \in Saves /\ FormEnded \in Saves
<1>1. EmptyForm \in Contents("company") /\ "company" \in Section
  BY DEF EmptyForm, Contents, Special, Section
<1>2. EmptyForm \in Anything
  BY <1>1, ContentsAny
<1> QED
  BY <1>2 DEF NoSave, FormEnded, Saves

\* A save goes on.
LEMMA SaveAt ==
  ASSUME NEW h \in Handler, NEW v \in {"written", "refused"},
         save \in [Handler -> Saves], save' = [save EXCEPT ![h].at = v]
  PROVE  /\ save' \in [Handler -> Saves] /\ save'[h].at = v
         /\ save'[h].section = save[h].section /\ save'[h].data = save[h].data
         /\ save'[h].previous = save[h].previous /\ save'[h].heard = save[h].heard
         /\ \A g \in Handler \ {h} : save'[g] = save[g]
<1>1. save[h] \in Saves
  OBVIOUS
<1> DEFINE p == [save[h] EXCEPT !.at = v]
<1>2. p \in Saves
  BY <1>1 DEF Saves
<1>3. /\ p.at = v /\ p.section = save[h].section /\ p.data = save[h].data
      /\ p.previous = save[h].previous /\ p.heard = save[h].heard
  BY <1>1 DEF Saves
<1>4. save' = [save EXCEPT ![h] = p]
  OBVIOUS
<1> HIDE DEF p
<1> QED
  BY <1>2, <1>3, <1>4

\* A save becomes another.
LEMMA SaveIs ==
  ASSUME NEW h \in Handler, NEW p \in Saves,
         save \in [Handler -> Saves], save' = [save EXCEPT ![h] = p]
  PROVE  /\ save' \in [Handler -> Saves] /\ save'[h] = p
         /\ \A g \in Handler \ {h} : save'[g] = save[g]
  OBVIOUS

\* A save whose answer nobody hears, and one with other rows in what was shown before.
LEMMA Unheard ==
  ASSUME NEW p \in Saves
  PROVE  LET q == [p EXCEPT !.heard = FALSE, !.previous = Unloaded]
         IN  /\ q \in Saves /\ q.at = p.at /\ q.section = p.section /\ q.data = p.data
             /\ q.previous = Unloaded /\ q.heard = FALSE
  BY DEF Saves

\* A save that keeps what was shown before.
LEMMA SaveWith ==
  ASSUME NEW p \in Saves, NEW all \in {Unloaded} \cup [inUse -> Anything]
  PROVE  /\ [p EXCEPT !.previous = all] \in Saves
         /\ [p EXCEPT !.previous = all].at = p.at
         /\ [p EXCEPT !.previous = all].section = p.section
         /\ [p EXCEPT !.previous = all].data = p.data
         /\ [p EXCEPT !.previous = all].previous = all
         /\ [p EXCEPT !.previous = all].heard = p.heard
  BY DEF Saves

\* FormInv holds before the settings are opened.
LEMMA FormInitially == CalmInit /\ FormInit => FormInv
<1> SUFFICES ASSUME FormInit PROVE FormInv
  OBVIOUS
<1>1. inUse \subseteq Section /\ longKey \in BOOLEAN
  BY DEF FormInit, Section
<1>2. PICK keyed \in BOOLEAN :
        stored = [s \in inUse |-> IF s = "company" THEN Default(s)
                                  ELSE IF s = "integrations" /\ keyed
                                       THEN [plain |-> 1, special |-> "key1"]
                                       ELSE Absent]
  BY DEF FormInit
<1>3. [plain |-> 1, special |-> "key1"] \in Contents("integrations")
  BY DEF Contents, Special, Keys
<1>4. \A s \in inUse : stored[s] \in Contents(s) \cup {Absent}
  BY <1>1, <1>2, <1>3, DefaultFits
<1>5. stored \in [inUse -> Anything \cup {Absent}]
  BY <1>1, <1>2, <1>3, DefaultFits, ContentsAny
<1>6. /\ provided = Unloaded /\ loading = Unloaded
      /\ page = "none" /\ form = EmptyForm /\ dirty = FALSE
      /\ saving = "none" /\ save = [h \in Handler |-> NoSave]
  BY DEF FormInit
<1>7. form \in Anything
  BY <1>6 DEF EmptyForm, Anything, Contents, Special, Section
<1>8. save \in [Handler -> Saves] /\ \A h \in Handler : save[h] = NoSave
  BY <1>6, NoSaveFits
<1>9. NoSave.at = "idle" /\ NoSave.previous = Unloaded /\ NoSave.heard = FALSE
  BY DEF NoSave
<1>10. FormTypeOK
  BY <1>1, <1>4, <1>5, <1>6, <1>7, <1>8, <1>9 DEF FormTypeOK
<1>11. KeyKept
  <2>1. "integrations" \in inUse => stored["integrations"] = Absent
                                    \/ stored["integrations"] = [plain |-> 1, special |-> "key1"]
    BY <1>2
  <2> QED
    BY <2>1 DEF KeyKept, Masks
<1>12. NothingAbsent /\ FormRest /\ FormCalmInv
  BY <1>6, <1>8, <1>9 DEF NothingAbsent, FormRest, FormCalmInv, Quiet
<1> QED
  BY <1>10, <1>11, <1>12 DEF FormInv

\* The sections in use stay the same.
LEMMA SameSections ==
  ASSUME inUse' = inUse
  PROVE  Saves' = Saves
  BY DEF Saves

\* FormInv is inductive.
LEMMA FormStep == FormInv /\ [FormNext]_<<formVars, calm>> => FormInv'
<1> SUFFICES ASSUME FormInv, [FormNext]_<<formVars, calm>> PROVE FormInv'
  OBVIOUS
<1>t. /\ inUse \subseteq Section /\ longKey \in BOOLEAN
      /\ stored \in [inUse -> Anything \cup {Absent}]
      /\ \A s \in inUse : stored[s] \in Contents(s) \cup {Absent}
      /\ provided = Unloaded \/ Settings(provided)
      /\ loading = Unloaded \/ Settings(loading)
      /\ page \in inUse \cup {"none"} /\ form \in Anything /\ dirty \in BOOLEAN
      /\ saving \in Handler \cup {"none"}
      /\ save \in [Handler -> Saves]
      /\ \A h \in Handler :
          /\ save[h].at \in {"sent", "written", "refused"} =>
              save[h].section \in inUse /\ save[h].data \in Contents(save[h].section)
          /\ save[h].previous = Unloaded \/ Settings(save[h].previous)
          /\ save[h].heard => save[h].previous # Unloaded
      /\ page # "none" => provided # Unloaded /\ form \in Contents(page)
  BY DEF FormInv, FormTypeOK
<1>i. KeyKept /\ NothingAbsent /\ FormRest /\ FormCalmInv
  BY DEF FormInv
<1>n. "none" \notin Handler /\ "none" \notin Section
  BY HandlerAssumption DEF Section
<1>s. \A all : Settings(all) => all \in [inUse -> Anything]
         /\ \A s \in inUse : all[s] \in Contents(s)
  BY DEF Settings
<1>1. CASE GetSettings
  <2>1. /\ provided = Unloaded /\ loading = Unloaded
        /\ stored' = [s \in inUse |-> IF stored[s] = Absent THEN Default(s) ELSE stored[s]]
        /\ loading' = [s \in inUse |-> IF stored'[s].special \in Keys
                                       THEN [stored'[s] EXCEPT !.special = MaskOf(@)]
                                       ELSE stored'[s]]
        /\ UNCHANGED <<inUse, longKey, provided, page, form, dirty, saving, save, calm>>
    BY <1>1 DEF GetSettings
  <2>2. \A s \in inUse : stored'[s] = IF stored[s] = Absent THEN Default(s) ELSE stored[s]
    BY <2>1
  <2>3. \A s \in inUse : stored'[s] \in Contents(s) /\ stored'[s] # Absent
    BY <1>t, <2>2, DefaultFits, NeverAbsent
  <2>4. ASSUME NEW s \in inUse
        PROVE  loading'[s] \in Contents(s) /\ Agrees(s, loading'[s], stored'[s])
    <3>1. PICK c \in Contents(s) : c = stored'[s]
      BY <2>3
    <3>2. CASE c.special \in Keys
      <4>1. loading'[s] = [c EXCEPT !.special = MaskOf(c.special)]
        BY <2>1, <3>1, <3>2
      <4>2. s = "integrations"
        BY <1>t, <3>2, OtherPlain DEF Special, Keys, Section
      <4>3. MaskOf(c.special) \in Special(s) /\ MaskOf(c.special) \in Masks
        BY <4>2 DEF Special, Masks, MaskOf
      <4> QED
        BY <3>1, <4>1, <4>3, OtherSpecial DEF Agrees
    <3>3. CASE c.special \notin Keys
      BY <2>1, <3>1, <3>3 DEF Agrees
    <3> QED
      BY <3>2, <3>3
  <2>5. Settings(loading') /\ stored' \in [inUse -> Anything \cup {Absent}]
    BY <1>t, <2>1, <2>3, <2>4, ContentsAny DEF Settings
  <2>6. FormTypeOK'
    BY <1>t, <1>s, <2>1, <2>3, <2>5, SameSections DEF FormTypeOK, Settings
  <2>7. KeyKept'
    <3>1. ASSUME longKey, "integrations" \in inUse
          PROVE  stored'["integrations"].special \notin Masks
      BY <1>i, <1>t, <2>2, <3>1, DefaultFits DEF KeyKept
    <3> QED
      BY <2>1, <3>1 DEF KeyKept
  <2>8. NothingAbsent' /\ FormRest'
    BY <1>i, <2>1, <2>3 DEF NothingAbsent, FormRest
  <2>9. FormCalmInv'
    <3>1. ASSUME calm, NEW h \in Handler PROVE save[h].at = "idle"
      BY <1>i, <2>1, <3>1 DEF FormCalmInv, SaveShown
    <3> QED
      BY <2>1, <2>4, <3>1 DEF FormCalmInv, AgreesAll
  <2> QED
    BY <2>6, <2>7, <2>8, <2>9 DEF FormInv
<1>2. CASE Loaded
  <2>1. /\ loading # Unloaded /\ provided' = loading /\ loading' = Unloaded
        /\ UNCHANGED <<inUse, longKey, stored, page, form, dirty, saving, save, calm>>
    BY <1>2 DEF Loaded
  <2>2. page = "none" /\ provided = Unloaded
    BY <1>i, <1>t, <2>1 DEF FormRest
  <2>3. FormTypeOK'
    BY <1>t, <1>s, <2>1, <2>2, SameSections DEF FormTypeOK, Settings
  <2>4. KeyKept' /\ NothingAbsent' /\ FormRest'
    BY <1>i, <2>1, <2>2 DEF KeyKept, NothingAbsent, FormRest
  <2>5. FormCalmInv'
    <3>1. ASSUME calm, NEW h \in Handler PROVE save[h].at = "idle"
      BY <1>i, <2>2, <3>1 DEF FormCalmInv, SaveShown
    <3> QED
      BY <1>i, <2>1, <3>1 DEF FormCalmInv, AgreesAll
  <2> QED
    BY <2>3, <2>4, <2>5 DEF FormInv
<1>3. CASE LoadAnew
  <2>1. /\ calm => Quiet
        /\ page' = "none" /\ form' = EmptyForm /\ dirty' = FALSE /\ saving' = "none"
        /\ provided' = Unloaded /\ loading' = Unloaded
        /\ save' = [h \in Handler |-> [save[h] EXCEPT !.heard = FALSE, !.previous = Unloaded]]
        /\ UNCHANGED <<inUse, longKey, stored, calm>>
    BY <1>3 DEF LoadAnew
  <2>2. \A h \in Handler : /\ save'[h] \in Saves /\ save'[h].at = save[h].at
                           /\ save'[h].section = save[h].section /\ save'[h].data = save[h].data
                           /\ save'[h].previous = Unloaded /\ save'[h].heard = FALSE
    BY <1>t, <2>1, Unheard
  <2>3. save' \in [Handler -> Saves]
    BY <2>1, <2>2
  <2>4. form' \in Anything
    BY <2>1, NoSaveFits DEF NoSave, Saves
  <2>5. FormTypeOK'
    BY <1>t, <2>1, <2>2, <2>3, <2>4, SameSections DEF FormTypeOK, Settings
  <2>6. KeyKept' /\ NothingAbsent' /\ FormRest'
    BY <1>i, <2>1, <2>2 DEF KeyKept, NothingAbsent, FormRest
  <2>7. FormCalmInv'
    BY <2>1, <2>2 DEF FormCalmInv, Quiet
  <2> QED
    BY <2>5, <2>6, <2>7 DEF FormInv
<1>4. CASE Cancel
  <2>1. /\ dirty /\ saving = "none" /\ form' = provided[page] /\ dirty' = FALSE
        /\ UNCHANGED <<inUse, longKey, stored, provided, loading, page, saving, save, calm>>
    BY <1>4 DEF Cancel
  <2>2. page # "none" /\ page \in inUse /\ Settings(provided)
    BY <1>i, <1>t, <2>1 DEF FormRest
  <2>3. form' \in Contents(page) /\ form' \in Anything
    BY <1>s, <1>t, <2>1, <2>2, ContentsAny
  <2>4. FormTypeOK'
    BY <1>t, <1>s, <2>1, <2>2, <2>3, SameSections DEF FormTypeOK, Settings
  <2>5. KeyKept' /\ NothingAbsent' /\ FormRest'
    BY <1>i, <2>1 DEF KeyKept, NothingAbsent, FormRest
  <2>6. FormCalmInv'
    BY <1>i, <2>1 DEF FormCalmInv, Quiet, SaveShown, AgreesAll
  <2> QED
    BY <2>4, <2>5, <2>6 DEF FormInv
<1>5. ASSUME NEW s \in inUse, OpenPage(s) PROVE FormInv'
  <2>1. /\ provided # Unloaded /\ (calm => Quiet)
        /\ page' = s /\ form' = provided[s] /\ dirty' = FALSE /\ saving' = "none"
        /\ UNCHANGED <<inUse, longKey, stored, provided, loading, save, calm>>
    BY <1>5 DEF OpenPage
  <2>2. Settings(provided) /\ form' \in Contents(s) /\ form' \in Anything
    BY <1>s, <1>t, <2>1, ContentsAny
  <2>3. FormTypeOK'
    BY <1>t, <1>s, <2>1, <2>2, SameSections DEF FormTypeOK, Settings
  <2>4. KeyKept' /\ NothingAbsent' /\ FormRest'
    BY <1>i, <2>1 DEF KeyKept, NothingAbsent, FormRest
  <2>5. FormCalmInv'
    BY <1>i, <2>1 DEF FormCalmInv, Quiet, AgreesAll
  <2> QED
    BY <2>3, <2>4, <2>5 DEF FormInv
<1>6. ASSUME NEW s \in inUse, OtherClient(s) PROVE FormInv'
  <2>1. /\ ~calm /\ stored[s] # Absent /\ stored' = [stored EXCEPT ![s].plain = 3 - @]
        /\ UNCHANGED <<inUse, longKey, provided, loading, page, form, dirty, saving, save, calm>>
    BY <1>6 DEF OtherClient
  <2>2. PICK c \in Contents(s) : c = stored[s]
    BY <1>t, <2>1
  <2>3. stored' = [stored EXCEPT ![s] = [c EXCEPT !.plain = 3 - @]]
    BY <2>1, <2>2
  <2>4. [c EXCEPT !.plain = 3 - @] \in Contents(s)
      /\ [c EXCEPT !.plain = 3 - @].special = c.special
    BY OtherPlain DEF Contents
  <2>5. /\ \A r \in inUse \ {s} : stored'[r] = stored[r]
        /\ stored'[s] \in Contents(s) /\ stored'[s] # Absent
        /\ stored'[s].special = stored[s].special
        /\ stored' \in [inUse -> Anything \cup {Absent}]
    BY <1>t, <2>2, <2>3, <2>4, ContentsAny, NeverAbsent
  <2>6. FormTypeOK'
    BY <1>t, <1>s, <2>1, <2>5, SameSections DEF FormTypeOK, Settings
  <2>7. KeyKept' /\ NothingAbsent' /\ FormRest'
    BY <1>i, <2>1, <2>5 DEF KeyKept, NothingAbsent, FormRest
  <2> QED
    BY <2>1, <2>6, <2>7 DEF FormInv, FormCalmInv
<1>7. ASSUME NEW f \in Contents(page), page # "none", calm => saving = "none", form' = f,
             dirty' = TRUE,
             UNCHANGED <<inUse, longKey, stored, provided, loading, page, saving, save, calm>>
      PROVE  FormInv'
  <2>1. f \in Anything
    BY <1>7, <1>t, ContentsAny
  <2>2. FormTypeOK'
    BY <1>t, <1>s, <1>7, <2>1, SameSections DEF FormTypeOK, Settings
  <2>3. KeyKept' /\ NothingAbsent' /\ FormRest'
    BY <1>i, <1>7 DEF KeyKept, NothingAbsent, FormRest
  <2>4. FormCalmInv'
    BY <1>i, <1>7 DEF FormCalmInv, Quiet, SaveShown, AgreesAll
  <2> QED
    BY <2>2, <2>3, <2>4 DEF FormInv
<1>8. ASSUME NEW s, MayEdit(s), s # "none", EditPlain PROVE FormInv'
  <2>1. /\ page = s /\ (calm => saving = "none")
        /\ form' = [form EXCEPT !.plain = 3 - @] /\ dirty' = TRUE
        /\ UNCHANGED <<inUse, longKey, stored, provided, loading, page, saving, save, calm>>
    BY <1>8 DEF MayEdit, EditPlain
  <2>2. PICK c \in Contents(page) : c = form
    BY <1>8, <1>t, <2>1
  <2>3. form' = [c EXCEPT !.plain = 3 - @] /\ [c EXCEPT !.plain = 3 - @] \in Contents(page)
    BY <2>1, <2>2, OtherPlain
  <2> QED
    BY <1>7, <1>8, <2>1, <2>3
<1>9. ASSUME NEW s, MayEdit(s), s \in {"payroll", "attendance"}, EditRowList PROVE FormInv'
  <2>1. /\ page = s /\ (calm => saving = "none")
        /\ form' = [form EXCEPT !.special = IF @ = "rows1" THEN "rows2" ELSE "rows1"]
        /\ dirty' = TRUE
        /\ UNCHANGED <<inUse, longKey, stored, provided, loading, page, saving, save, calm>>
    BY <1>9 DEF MayEdit, EditRowList
  <2>2. PICK c \in Contents(page) : c = form
    BY <1>9, <1>t, <2>1
  <2>3. PICK x \in Special(page) : x = IF form.special = "rows1" THEN "rows2" ELSE "rows1"
    BY <1>9, <2>1 DEF Special
  <2>4. form' = [c EXCEPT !.special = x] /\ [c EXCEPT !.special = x] \in Contents(page)
    BY <2>1, <2>2, <2>3, OtherSpecial
  <2> QED
    BY <1>7, <1>9, <2>1, <2>4
<1>10. ASSUME NEW key \in {"key2", "typedMask", "noKey"}, MayEdit("integrations"), EditKey(key)
       PROVE FormInv'
  <2>1. /\ page = "integrations" /\ (calm => saving = "none")
        /\ form' = [form EXCEPT !.special = key] /\ dirty' = TRUE
        /\ UNCHANGED <<inUse, longKey, stored, provided, loading, page, saving, save, calm>>
    BY <1>10 DEF MayEdit, EditKey
  <2>2. PICK c \in Contents(page) : c = form
    BY <1>t, <2>1
  <2>3. key \in Special(page)
    BY <2>1 DEF Special, Keys, Masks
  <2>4. form' = [c EXCEPT !.special = key] /\ [c EXCEPT !.special = key] \in Contents(page)
    BY <2>1, <2>2, <2>3, OtherSpecial
  <2> QED
    BY <1>7, <2>1, <2>4
<1>11. ASSUME NEW s, MayEdit(s), s \in {"payroll", "attendance"}, EditRowInPlace PROVE FormInv'
  <2>1. PICK rows \in {"rows1", "rows2"} :
          /\ page = s /\ (calm => saving = "none")
          /\ form' = [form EXCEPT !.special = rows] /\ dirty' = TRUE
          /\ provided' = RowsIn(provided, page, rows)
          /\ save' = [h \in Handler |-> [save[h] EXCEPT !.previous = RowsIn(@, page, rows)]]
          /\ UNCHANGED <<inUse, longKey, stored, loading, page, saving, calm>>
    BY <1>11 DEF MayEdit, EditRowInPlace
  <2>2. page \in inUse /\ rows \in Special(page) /\ page # "integrations" /\ page # "none"
    BY <1>11, <1>t, <2>1 DEF Special
  <2>3. ASSUME NEW all, Settings(all)
        PROVE  LET some == RowsIn(all, page, rows)
               IN  /\ Settings(some) /\ some # Unloaded
                   /\ \A r \in inUse \ {page} : some[r] = all[r]
                   /\ some[page].plain = all[page].plain
    <3>1. all \in [inUse -> Anything] /\ \A r \in inUse : all[r] \in Contents(r)
      BY <2>3 DEF Settings
    <3>2. all # Unloaded
      BY <2>2, <3>1, LoadedIsSome
    <3>3. PICK c \in Contents(page) : c = all[page]
      BY <2>2, <3>1
    <3> DEFINE d == [c EXCEPT !.special = rows]
               some == [all EXCEPT ![page] = d]
    <3>4. RowsIn(all, page, rows) = some
      BY <3>2, <3>3 DEF RowsIn
    <3>5. d \in Contents(page) /\ d.plain = c.plain
      BY <2>2, OtherSpecial
    <3> HIDE DEF d
    <3>6. some \in [inUse -> Anything] /\ \A r \in inUse : some[r] \in Contents(r)
      BY <1>t, <2>2, <3>1, <3>5, ContentsAny
    <3>7. some[page] = d /\ \A r \in inUse \ {page} : some[r] = all[r]
      BY <2>2, <3>1
    <3>8. some # Unloaded
      BY <2>2, <3>6, LoadedIsSome
    <3> HIDE DEF some
    <3> QED
      BY <3>3, <3>4, <3>5, <3>6, <3>7, <3>8 DEF Settings
  <2>4. Settings(provided) /\ provided # Unloaded
    BY <1>t, <2>2
  <2>5. /\ Settings(provided') /\ provided' # Unloaded
        /\ \A r \in inUse \ {page} : provided'[r] = provided[r]
        /\ provided'[page].plain = provided[page].plain
    BY <2>1, <2>3, <2>4
  <2>6. PICK c \in Contents(page) : c = form
    BY <1>t, <2>2
  <2>7. form' \in Contents(page) /\ form' \in Anything
    <3>1. form' = [c EXCEPT !.special = rows]
      BY <2>1, <2>6
    <3> QED
      BY <1>t, <2>2, <3>1, OtherSpecial, ContentsAny
  <2>8. ASSUME NEW h \in Handler
        PROVE  /\ save'[h] \in Saves /\ save'[h].at = save[h].at
               /\ save'[h].section = save[h].section /\ save'[h].data = save[h].data
               /\ save'[h].heard = save[h].heard
               /\ save'[h].previous = Unloaded \/ Settings(save'[h].previous)
               /\ save[h].heard => save'[h].previous # Unloaded
    <3>1. PICK p \in Saves : p = save[h]
      BY <1>t
    <3>2. PICK all : all = RowsIn(p.previous, page, rows)
      OBVIOUS
    <3>3. /\ all \in {Unloaded} \cup [inUse -> Anything] /\ (all = Unloaded \/ Settings(all))
          /\ p.heard => all # Unloaded
      <4>1. CASE p.previous = Unloaded
        BY <1>t, <3>1, <3>2, <4>1 DEF RowsIn
      <4>2. CASE Settings(p.previous)
        BY <1>s, <2>3, <3>2, <4>2
      <4> QED
        BY <1>t, <3>1, <4>1, <4>2
    <3>4. save'[h] = [p EXCEPT !.previous = all]
      BY <2>1, <3>1, <3>2
    <3> DEFINE q == [p EXCEPT !.previous = all]
    <3>5. /\ q \in Saves /\ q.at = p.at /\ q.section = p.section /\ q.data = p.data
          /\ q.previous = all /\ q.heard = p.heard
      BY <3>3, SaveWith
    <3>6. save'[h] = q
      BY <3>4
    <3> HIDE DEF q
    <3> QED
      BY <3>1, <3>3, <3>5, <3>6
  <2>9. save' \in [Handler -> Saves]
    BY <2>1, <2>8
  <2>10. FormTypeOK'
    <3>1. /\ inUse' \subseteq Section /\ longKey' \in BOOLEAN
          /\ stored' \in [inUse' -> Anything \cup {Absent}]
          /\ \A r \in inUse' : stored'[r] \in Contents(r) \cup {Absent}
          /\ page' \in inUse' \cup {"none"} /\ dirty' \in BOOLEAN
          /\ saving' \in Handler \cup {"none"}
      BY <1>t, <2>1
    <3>2. (provided = Unloaded \/ Settings(provided))'
      BY <2>1, <2>5 DEF Settings
    <3>3. (loading = Unloaded \/ Settings(loading))'
      BY <1>t, <2>1 DEF Settings
    <3>4. (\A h \in Handler : save[h].previous = Unloaded \/ Settings(save[h].previous))'
      BY <2>1, <2>8 DEF Settings
    <3>5. /\ \A h \in Handler : save'[h].at \in {"sent", "written", "refused"} =>
              save'[h].section \in inUse' /\ save'[h].data \in Contents(save'[h].section)
          /\ \A h \in Handler : save'[h].heard => save'[h].previous # Unloaded
      BY <1>t, <2>1, <2>8
    <3>6. page' # "none" => provided' # Unloaded /\ form' \in Contents(page')
      BY <2>1, <2>5, <2>7
    <3> QED
      BY <2>1, <2>7, <2>9, <3>1, <3>2, <3>3, <3>4, <3>5, <3>6, SameSections DEF FormTypeOK
  <2>11. KeyKept' /\ NothingAbsent' /\ FormRest'
    BY <1>i, <2>1, <2>2, <2>4, <2>5, <2>8 DEF KeyKept, NothingAbsent, FormRest
  <2>12. ASSUME calm PROVE FormCalmInv'
    <3>1. \A h \in Handler : save[h].at = "idle"
      BY <1>i, <1>n, <2>1, <2>12 DEF FormCalmInv, SaveShown
    <3>2. \A r \in inUse : Agrees(r, provided[r], stored[r])
      BY <1>i, <2>4, <2>12, <3>1 DEF FormCalmInv, Quiet, AgreesAll
    <3>3. \A r \in inUse : Agrees(r, provided'[r], stored[r])
      BY <2>2, <2>5, <3>2 DEF Agrees
    <3>4. loading = Unloaded
      BY <1>i, <2>4 DEF FormRest
    <3> QED
      BY <2>1, <2>8, <3>1, <3>3, <3>4 DEF FormCalmInv, AgreesAll
  <2> QED
    BY <2>1, <2>10, <2>11, <2>12 DEF FormInv, FormCalmInv
<1>12. ASSUME NEW h \in Handler, UpdateShown(h) PROVE FormInv'
  <2> DEFINE p == [at |-> "sent", section |-> page, data |-> form, previous |-> provided,
                   heard |-> TRUE]
  <2>1. /\ dirty /\ saving = "none" /\ (calm => \A g \in Handler : save[g].at = "idle")
        /\ save' = [save EXCEPT ![h] = p] /\ provided' = [provided EXCEPT ![page] = form]
        /\ saving' = h
        /\ UNCHANGED <<inUse, longKey, stored, loading, page, form, dirty, calm>>
    BY <1>12 DEF UpdateShown, MayTake, SaveSteps
  <2>2. /\ page # "none" /\ page \in inUse /\ Settings(provided) /\ provided # Unloaded
        /\ form \in Contents(page)
    BY <1>i, <1>t, <2>1 DEF FormRest
  <2>3. provided \in [inUse -> Anything] /\ \A s \in inUse : provided[s] \in Contents(s)
    BY <2>2 DEF Settings
  <2>4. /\ p \in Saves /\ p.at = "sent" /\ p.section = page /\ p.data = form
        /\ p.previous = provided /\ p.heard
    BY <1>t, <2>2, <2>3 DEF Saves
  <2> HIDE DEF p
  <2>5. /\ save' \in [Handler -> Saves] /\ save'[h] = p
        /\ \A g \in Handler \ {h} : save'[g] = save[g]
    BY <1>t, <2>1, <2>4, SaveIs
  <2>6. /\ provided'[page] = form /\ \A s \in inUse \ {page} : provided'[s] = provided[s]
        /\ provided' \in [inUse -> Anything] /\ \A s \in inUse : provided'[s] \in Contents(s)
    BY <1>t, <2>1, <2>2, <2>3
  <2>7. Settings(provided') /\ provided' # Unloaded
    BY <2>2, <2>6, LoadedIsSome DEF Settings
  <2>8. FormTypeOK'
    BY <1>t, <1>s, <2>1, <2>2, <2>4, <2>5, <2>7, SameSections DEF FormTypeOK, Settings
  <2>9. KeyKept' /\ NothingAbsent' /\ FormRest'
    <3>1. \A s \in inUse : stored[s] # Absent
      BY <1>i, <2>2 DEF NothingAbsent
    <3> QED
      BY <1>i, <2>1, <2>2, <2>5, <2>6, <2>7, <3>1 DEF KeyKept, NothingAbsent, FormRest
  <2>10. ASSUME calm PROVE FormCalmInv'
    <3>1. AgreesAll(provided)
      BY <1>i, <2>1, <2>2, <2>10 DEF FormCalmInv, Quiet
    <3>2. loading = Unloaded
      BY <1>i, <2>2 DEF FormRest
    <3>3. SaveShown(h)'
      BY <2>1, <2>2, <2>4, <2>5, <2>6, <2>7, <3>1 DEF SaveShown, AgreesAll
    <3>4. \A g \in Handler \ {h} : save'[g].at = "idle"
      BY <2>1, <2>5, <2>10
    <3> QED
      BY <2>1, <2>4, <2>5, <3>2, <3>3, <3>4 DEF FormCalmInv, Quiet
  <2> QED
    BY <2>1, <2>8, <2>9, <2>10 DEF FormInv, FormCalmInv
<1>13. ASSUME NEW h \in Handler, UpdateSettings(h) PROVE FormInv'
  <2>1. PICK s : s = save[h].section
    OBVIOUS
  <2>2. PICK d : d = save[h].data
    OBVIOUS
  <2>3. /\ save[h].at = "sent" /\ stored' = [stored EXCEPT ![s] = Updated(s, stored[s], d)]
        /\ save' = [save EXCEPT ![h].at = "written"]
        /\ UNCHANGED <<inUse, longKey, provided, loading, page, form, dirty, saving, calm>>
    BY <1>13, <2>1, <2>2 DEF UpdateSettings
  <2>4. s \in inUse /\ d \in Contents(s) /\ \A r \in inUse : stored[r] # Absent
    BY <1>i, <1>t, <2>1, <2>2, <2>3 DEF NothingAbsent
  <2>5. PICK old \in Contents(s) : old = stored[s]
    BY <1>t, <2>4
  <2>6. PICK new : new = Updated(s, old, d)
    OBVIOUS
  <2>7. /\ new \in Contents(s) /\ new.plain = d.plain
        /\ s = "integrations" =>
             /\ d.special \in {new.special} \cup Masks
             /\ longKey /\ old.special \notin Masks => new.special \notin Masks
    <3>1. CASE s = "integrations" /\ d.special \in (IF longKey THEN Masks ELSE {"typedMask"})
      <4>1. new = [d EXCEPT !.special = old.special] /\ old.special \in Special(s)
        BY <2>6, <3>1, OtherPlain DEF Updated
      <4>2. new \in Contents(s) /\ new.plain = d.plain /\ new.special = old.special
        BY <2>4, <4>1, OtherSpecial
      <4>3. d.special \in Masks
        BY <3>1 DEF Masks
      <4> QED
        BY <4>2, <4>3
    <3>2. CASE ~(s = "integrations" /\ d.special \in (IF longKey THEN Masks ELSE {"typedMask"}))
      <4>1. new = d
        BY <2>6, <3>2 DEF Updated
      <4> QED
        BY <2>4, <3>2, <4>1
    <3> QED
      BY <3>1, <3>2
  <2>8. /\ stored'[s] = new /\ \A r \in inUse \ {s} : stored'[r] = stored[r]
        /\ stored' \in [inUse -> Anything \cup {Absent}]
        /\ \A r \in inUse : stored'[r] \in Contents(r) /\ stored'[r] # Absent
    BY <1>t, <2>3, <2>4, <2>5, <2>6, <2>7, ContentsAny, NeverAbsent
  <2>9. /\ save' \in [Handler -> Saves] /\ save'[h].at = "written"
        /\ save'[h].section = s /\ save'[h].data = d
        /\ save'[h].previous = save[h].previous /\ save'[h].heard = save[h].heard
        /\ \A g \in Handler \ {h} : save'[g] = save[g]
    BY <1>t, <2>1, <2>2, <2>3, SaveAt
  <2>10. FormTypeOK'
    <3>1. \A g \in Handler :
            /\ save'[g].at \in {"sent", "written", "refused"} =>
                save'[g].section \in inUse /\ save'[g].data \in Contents(save'[g].section)
            /\ save'[g].previous = Unloaded \/ Settings(save'[g].previous)
            /\ save'[g].heard => save'[g].previous # Unloaded
      BY <1>t, <2>4, <2>9
    <3> QED
      BY <1>t, <1>s, <2>3, <2>8, <2>9, <3>1, SameSections DEF FormTypeOK, Settings
  <2>11. KeyKept'
    BY <1>i, <2>3, <2>4, <2>5, <2>7, <2>8 DEF KeyKept
  <2>12. NothingAbsent' /\ FormRest'
    BY <1>i, <2>3, <2>8 DEF NothingAbsent, FormRest
  <2>13. ASSUME calm PROVE FormCalmInv'
    <3>1. SaveShown(h) /\ \A g \in Handler \ {h} : save[g].at = "idle"
      BY <1>i, <2>3, <2>13 DEF FormCalmInv
    <3>2. /\ saving = h /\ page = s /\ page # "none" /\ provided # Unloaded /\ provided[page] = d
          /\ \A r \in inUse \ {page} : Agrees(r, provided[r], stored[r])
      BY <2>1, <2>2, <2>3, <3>1 DEF SaveShown
    <3>3. Agrees(s, provided[s], stored'[s])
      BY <2>7, <2>8, <3>2 DEF Agrees
    <3>4. \A r \in inUse : Agrees(r, provided[r], stored'[r])
      BY <2>8, <3>2, <3>3
    <3>5. SaveShown(h)'
      BY <2>3, <2>9, <3>2, <3>4 DEF SaveShown, AgreesAll
    <3>6. loading = Unloaded
      BY <1>i, <3>2 DEF FormRest
    <3> QED
      BY <2>3, <2>9, <3>1, <3>5, <3>6 DEF FormCalmInv, Quiet
  <2> QED
    BY <2>3, <2>10, <2>11, <2>12, <2>13 DEF FormInv, FormCalmInv
<1>14. ASSUME NEW h \in Handler, RefuseSettings(h) PROVE FormInv'
  <2>1. /\ save[h].at = "sent" /\ save' = [save EXCEPT ![h].at = "refused"]
        /\ UNCHANGED <<inUse, longKey, stored, provided, loading, page, form, dirty, saving,
                       calm>>
    BY <1>14 DEF RefuseSettings
  <2>2. /\ save' \in [Handler -> Saves] /\ save'[h].at = "refused"
        /\ save'[h].section = save[h].section /\ save'[h].data = save[h].data
        /\ save'[h].previous = save[h].previous /\ save'[h].heard = save[h].heard
        /\ \A g \in Handler \ {h} : save'[g] = save[g]
    BY <1>t, <2>1, SaveAt
  <2>3. FormTypeOK'
    <3>1. \A g \in Handler :
            /\ save'[g].at \in {"sent", "written", "refused"} =>
                save'[g].section \in inUse /\ save'[g].data \in Contents(save'[g].section)
            /\ save'[g].previous = Unloaded \/ Settings(save'[g].previous)
            /\ save'[g].heard => save'[g].previous # Unloaded
      BY <1>t, <2>1, <2>2
    <3> QED
      BY <1>t, <1>s, <2>1, <2>2, <3>1, SameSections DEF FormTypeOK, Settings
  <2>4. KeyKept' /\ NothingAbsent' /\ FormRest'
    BY <1>i, <2>1, <2>2 DEF KeyKept, NothingAbsent, FormRest
  <2>5. ASSUME calm PROVE FormCalmInv'
    <3>1. SaveShown(h) /\ \A g \in Handler \ {h} : save[g].at = "idle"
      BY <1>i, <2>1, <2>5 DEF FormCalmInv
    <3>2. SaveShown(h)'
      BY <2>1, <2>2, <3>1 DEF SaveShown, AgreesAll
    <3>3. loading = Unloaded
      BY <1>i, <3>1 DEF FormRest, SaveShown
    <3> QED
      BY <2>1, <2>2, <3>1, <3>2, <3>3 DEF FormCalmInv, Quiet
  <2> QED
    BY <2>1, <2>3, <2>4, <2>5 DEF FormInv, FormCalmInv
<1>15. ASSUME NEW h \in Handler, NEW all,
              save' = [save EXCEPT ![h] = FormEnded],
              saving' = IF saving = h THEN "none" ELSE saving,
              all = provided \/ (all = save[h].previous /\ save[h].heard),
              provided' = all, dirty' \in BOOLEAN, dirty' => dirty,
              form' = (IF page # "none" /\ ~dirty' THEN all[page] ELSE form),
              UNCHANGED <<inUse, longKey, stored, loading, page, calm>>,
              calm => save[h].at # "idle" /\ AgreesAll(all)
       PROVE  FormInv'
  <2>1. /\ save' \in [Handler -> Saves] /\ save'[h] = FormEnded
        /\ \A g \in Handler \ {h} : save'[g] = save[g]
    BY <1>t, <1>15, NoSaveFits, SaveIs
  <2>2. /\ FormEnded.at = IF calm THEN "idle" ELSE "ended"
        /\ FormEnded.previous = Unloaded /\ FormEnded.heard = FALSE
    BY DEF FormEnded, NoSave
  <2>3. /\ all = Unloaded \/ Settings(all)
        /\ all # Unloaded <=> provided # Unloaded
    BY <1>i, <1>t, <1>15 DEF FormRest
  <2>4. page # "none" => page \in inUse /\ Settings(all) /\ all # Unloaded
    BY <1>t, <2>3
  <2>5. form' \in Anything /\ (page # "none" => form' \in Contents(page))
    <3>1. CASE page # "none" /\ ~dirty'
      <4>1. all[page] \in Contents(page) /\ form' = all[page]
        BY <1>15, <1>s, <2>4, <3>1
      <4> QED
        BY <1>t, <2>4, <3>1, <4>1, ContentsAny
    <3>2. CASE ~(page # "none" /\ ~dirty')
      BY <1>t, <1>15, <3>2
    <3> QED
      BY <3>1, <3>2
  <2>6. FormTypeOK'
    <3>1. \A g \in Handler :
            /\ save'[g].at \in {"sent", "written", "refused"} =>
                save'[g].section \in inUse /\ save'[g].data \in Contents(save'[g].section)
            /\ save'[g].previous = Unloaded \/ Settings(save'[g].previous)
            /\ save'[g].heard => save'[g].previous # Unloaded
      BY <1>t, <2>1, <2>2
    <3>2. saving' \in Handler \cup {"none"}
      BY <1>t, <1>15
    <3> QED
      BY <1>t, <1>s, <1>15, <2>1, <2>3, <2>4, <2>5, <3>1, <3>2, SameSections DEF FormTypeOK,
         Settings
  <2>7. KeyKept' /\ NothingAbsent'
    <3>1. \A g \in Handler : save'[g].at = "sent" => save[g].at = "sent"
      BY <2>1, <2>2
    <3> QED
      BY <1>i, <1>15, <2>3, <3>1 DEF KeyKept, NothingAbsent
  <2>8. FormRest'
    BY <1>i, <1>15, <2>1, <2>2, <2>3 DEF FormRest
  <2>9. ASSUME calm PROVE FormCalmInv'
    <3>1. \A g \in Handler : save'[g].at = "idle"
      BY <1>i, <1>15, <2>1, <2>2, <2>9 DEF FormCalmInv
    <3>2. SaveShown(h)
      BY <1>i, <1>15, <2>9 DEF FormCalmInv
    <3>3. loading = Unloaded
      BY <1>i, <3>2 DEF FormRest, SaveShown
    <3> QED
      BY <1>15, <2>9, <3>1, <3>3 DEF FormCalmInv, AgreesAll
  <2> QED
    BY <1>15, <2>6, <2>7, <2>8, <2>9 DEF FormInv, FormCalmInv
<1>16. ASSUME NEW h \in Handler, Saved(h) PROVE FormInv'
  <2>1. /\ save[h].at = "written" /\ save' = [save EXCEPT ![h] = FormEnded]
        /\ dirty' = (dirty /\ saving # h) /\ saving' = (IF saving = h THEN "none" ELSE saving)
        /\ form' = (IF page # "none" /\ ~dirty' THEN provided[page] ELSE form)
        /\ UNCHANGED <<inUse, longKey, stored, provided, loading, page, calm>>
    BY <1>16 DEF Saved, Refill
  <2>2. calm => AgreesAll(provided)
    BY <1>i, <2>1 DEF FormCalmInv, SaveShown
  <2>3. dirty' \in BOOLEAN /\ (dirty' => dirty)
    BY <2>1
  <2> QED
    BY <1>15, <2>1, <2>2, <2>3
<1>17. ASSUME NEW h \in Handler, TakenBack(h) PROVE FormInv'
  <2>1. PICK all : all = IF save[h].heard THEN save[h].previous ELSE provided
    OBVIOUS
  <2>2. /\ calm => save[h].at = "refused"
        /\ save' = [save EXCEPT ![h] = FormEnded]
        /\ dirty' = dirty /\ saving' = (IF saving = h THEN "none" ELSE saving)
        /\ provided' = all
        /\ form' = (IF page # "none" /\ ~dirty' THEN all[page] ELSE form)
        /\ UNCHANGED <<inUse, longKey, stored, loading, page, calm>>
    BY <1>17, <2>1 DEF TakenBack, Refill, MayBreak
  <2>3. calm => AgreesAll(all)
    BY <1>i, <2>1, <2>2 DEF FormCalmInv, SaveShown
  <2>4. all = provided \/ (all = save[h].previous /\ save[h].heard)
    BY <2>1
  <2>5. dirty' \in BOOLEAN /\ (dirty' => dirty)
    BY <1>t, <2>2
  <2> QED
    BY <1>15, <2>2, <2>3, <2>4, <2>5
<1>18. CASE UNCHANGED <<formVars, calm>>
  BY <1>18 DEF formVars, FormInv, FormTypeOK, KeyKept, NothingAbsent, FormRest, FormCalmInv,
     SaveShown, AgreesAll, Quiet, Settings, Saves
<1>19. CASE CompanyEdit \/ SecurityEdit \/ PayrollEdit \/ PayslipEdit \/ AttendanceEdit
  BY <1>8, <1>19 DEF CompanyEdit, SecurityEdit, PayrollEdit, PayslipEdit, AttendanceEdit
<1>20. CASE AllowanceEdit \/ ShiftEdit
  BY <1>9, <1>11, <1>20 DEF AllowanceEdit, ShiftEdit
<1>21. CASE IntegrationEdit
  BY <1>8, <1>10, <1>21 DEF IntegrationEdit
<1> QED
  BY <1>1, <1>2, <1>3, <1>4, <1>5, <1>6, <1>12, <1>13, <1>14, <1>16, <1>17, <1>18, <1>19, <1>20,
     <1>21 DEF FormNext

\* However the settings are edited, saved and refused, FormInv holds (SettingsProvider
\* and its pages).
THEOREM FormInvariance == FormSpec => []FormInv
  BY FormInitially, FormStep, PTL DEF FormSpec

\* For any number of saves and loads under way: a mask never becomes the key, nothing is
\* shown that is not stored, and where requests do not overlap what is shown between
\* saves is what is stored (the pages of settings, SettingsService).
THEOREM FormsStaySound == FormSpec => []FormsSound
  BY FormImplied, FormInvariance, PTL

-----------------------------------------------------------------------------
(*************************************************************************)
(* The lists.  Where answers change the list, a row is listed as the     *)
(* server has it, or the answer that is under way will see to that,      *)
(* unless one that was overtaken is under way as well: that one tells    *)
(* the page that it is behind.  Where a change is followed by a load,    *)
(* the list is right, or an answer or a load that was not overtaken is   *)
(* under way.  The directory, without overlap, has made the change       *)
(* already and keeps what was before.                                    *)
(*************************************************************************)

\* A question for the list.
Loads == [at : {"idle", "asked", "read"}, rows : {<<>>} \cup [Entry -> Content], late : BOOLEAN]

\* A change of a row.
Changes == [at : {"idle", "sent", "done", "refused"}, op : {"add", "update", "remove"},
            entry : Entry, value : Value, before : {<<>>} \cup [Entry -> Shows],
            dropped : SUBSET Entry, kept : BOOLEAN, late : BOOLEAN]

\* What a page lists of a row that the server has so.
Line(v) == IF v \in Value THEN <<v>> ELSE <<>>

\* What becomes of a listed row when the answer of a change patches the list.
PatchedLine(line, op, v) ==
    CASE op = "add"    -> IF line = <<>> THEN <<v>> ELSE <<line[1], v>>
      [] op = "update" -> [i \in DOMAIN line |-> v]
      [] op = "remove" -> <<>>

\* Who may overlap: nobody on the directory and in a calm history.
Apart ==
    /\ listing.way = "ahead" => calm
    /\ listing.way # "ahead" => unsaved = {} /\ \A h \in Handler : change[h].kept
    /\ calm => /\ \A g, h \in Handler : change[g].at # "idle" /\ change[h].at # "idle" => g = h
               /\ \A g, h \in Handler : load[g].at # "idle" => change[h].at = "idle"

\* Whose change of a row has been made and not been answered yet.
AnswersOf(e) == {h \in Handler : change[h].at = "done" /\ change[h].entry = e}

\* What was read or made and not been overtaken is so, and one change of a row only is that.
InTime ==
    /\ \A h \in Handler : load[h].at = "read" =>
        load[h].rows \in [Entry -> Content] /\ (~load[h].late => load[h].rows = table)
    /\ \A h \in Handler : change[h].at = "done" /\ ~change[h].late /\ change[h].kept =>
        table[change[h].entry] = IF change[h].op = "remove" THEN "gone" ELSE change[h].value
    /\ \A e \in Entry : \A g, h \in AnswersOf(e) : ~change[g].late /\ ~change[h].late => g = h

\* An answer will make the list right, or find its new row listed.
Follows(c) ==
    \/ PatchedLine(list[c.entry], c.op, c.value) = Line(table[c.entry])
    \/ c.op = "add" /\ list[c.entry] # <<>>

\* A row without overtaken answers is listed as the server has it, or will be.
PatchListed ==
    listing.way = "patch" /\ ~behind => \A e \in Entry :
        (\A h \in AnswersOf(e) : ~change[h].late) =>
            /\ AnswersOf(e) = {} => list[e] = Line(table[e])
            /\ \A h \in AnswersOf(e) : Follows(change[h])

\* The list is right, or will be loaded.
ReloadListed ==
    listing.way = "reload" /\ ~behind =>
        \/ \A e \in Entry : list[e] = Line(table[e])
        \/ \E h \in Handler : change[h].at = "done"
        \/ \E h \in Handler : load[h].at # "idle" /\ ~load[h].late

\* The directory has made a change already, and keeps what it listed before.
Ahead(c) ==
    /\ c.op = "update" /\ c.before \in [Entry -> Shows]
    /\ c.at \in {"sent", "refused"} =>
        (~behind =>
            /\ list[c.entry] = <<c.value>> /\ (c.kept \/ c.entry \in unsaved)
            /\ \A e \in Entry \ c.dropped : c.before[e] = Line(table[e]))
    /\ c.at = "done" /\ ~behind /\ c.entry \notin unsaved =>
        list[c.entry] = Line(table[c.entry])

\* What else it lists is so.
AheadListed ==
    listing.way = "ahead" =>
        /\ ~behind => \A e \in Entry \ unsaved :
              (\A h \in Handler : change[h].at # "idle" => change[h].entry # e) =>
                  list[e] = Line(table[e])
        /\ \A h \in Handler : change[h].at # "idle" => Ahead(change[h])

\* Types, and what is listed.
ListInv == ListTypeOK /\ Apart /\ InTime /\ PatchListed /\ ReloadListed /\ AheadListed

\* A list that was read lists each row.
LEMMA ListsLine == ASSUME NEW rows, NEW e \in Entry PROVE ListsOf(rows)[e] = Line(rows[e])
  BY DEF ListsOf, Line

\* What each page does.
LEMMA ListingWays ==
  ASSUME listing \in Listings
  PROVE  /\ listing = Employees <=> listing.way = "ahead"
         /\ listing = Employees => listing.ops = {"update"} /\ ~listing.polls
         /\ listing.way = "patch" => listing = Branches /\ ~listing.empties
         /\ listing.way \in {"patch", "reload", "ahead"}
         /\ listing.ops \subseteq {"add", "update", "remove"}
  BY DEF Listings, Branches, Employees, DepartmentList, CustomRoles, Policies, Holidays, Team,
     LeaveInbox

\* ListInv implies what the run checks.
LEMMA ListImplied == ListInv => ListSound
<1> SUFFICES ASSUME ListInv, AtRest, ~behind, NEW e \in Entry \ unsaved
             PROVE  list[e] = ListsOf(table)[e]
  BY DEF ListSound
<1>1. \A h \in Handler : change[h].at = "idle" /\ load[h].at = "idle"
  BY DEF AtRest
<1>2. listing.way \in {"patch", "reload", "ahead"}
  BY ListingWays DEF ListInv, ListTypeOK
<1>3. CASE listing.way = "patch"
  <2>1. AnswersOf(e) = {}
    BY <1>1 DEF AnswersOf
  <2> QED
    BY <1>3, <2>1, ListsLine DEF ListInv, PatchListed
<1>4. CASE listing.way = "reload"
  BY <1>1, <1>4, ListsLine DEF ListInv, ReloadListed
<1>5. CASE listing.way = "ahead"
  BY <1>1, <1>5, ListsLine DEF ListInv, AheadListed
<1> QED
  BY <1>2, <1>3, <1>4, <1>5

\* No request changes what kind of history it is.
LEMMA ListCalm == ListNext => calm' = calm
  BY DEF ListNext, Poll, ListRead, ListLoaded, ListFails, BranchSubmit, BranchRemove,
     AddDepartment,
     RemoveDepartment, SaveRole, RemoveRole, SavePolicy, DeletePolicy, AddHoliday, DeleteHoliday,
     Invite, Decide, EditProfile, ServerChanges, ServerRefuses, Patch, Reload, GiveUp,
     ElsewhereChanged, SendAndWait, Send

\* What can be listed of a row.
LEMMA LineShows == \A v : Line(v) \in Shows
  BY DEF Line, Shows

\* What is listed first is a value.
LEMMA FirstValue == \A x \in Shows : x # <<>> => x[1] \in Value
  BY DEF Shows

\* A patched list lists such rows.
LEMMA PatchedShows ==
  ASSUME NEW x \in Shows, NEW op \in {"add", "update", "remove"}, NEW v \in Value
  PROVE  PatchedLine(x, op, v) \in Shows
<1>1. CASE op = "add"
  BY <1>1, FirstValue DEF PatchedLine, Shows
<1>2. CASE op = "remove"
  BY <1>2 DEF PatchedLine, Shows
<1>3. CASE op = "update"
  <2>1. CASE x = <<>>
    <3>1. [i \in DOMAIN x |-> v] = <<>>
      BY <2>1
    <3> QED
      BY <1>3, <3>1 DEF PatchedLine, Shows
  <2>2. CASE \E w \in Value : x = <<w>>
    <3>1. [i \in DOMAIN x |-> v] = <<v>>
      BY <2>2
    <3> QED
      BY <1>3, <3>1 DEF PatchedLine, Shows
  <2>3. CASE x \in Value \X Value
    <3>1. [i \in DOMAIN x |-> v] = <<v, v>>
      BY <2>3
    <3> QED
      BY <1>3, <3>1 DEF PatchedLine, Shows
  <2> QED
    BY <2>1, <2>2, <2>3 DEF Shows
<1> QED
  BY <1>1, <1>2, <1>3

\* A row as a change made it: the answer makes the list so, from what was so before or
\* from what is so already.
LEMMA PatchedRight ==
  ASSUME NEW op \in {"add", "update", "remove"}, NEW v \in Value, NEW w \in Value
  PROVE  /\ PatchedLine(<<>>, "add", v) = Line(v)
         /\ PatchedLine(<<w>>, "update", v) = Line(v)
         /\ \A x : PatchedLine(x, "remove", v) = Line("gone")
<1>1. [i \in DOMAIN <<w>> |-> v] = <<v>>
  OBVIOUS
<1>2. "gone" \notin Value
  BY DEF Value
<1> QED
  BY <1>1, <1>2 DEF PatchedLine, Line

\* No question and no change are such.
LEMMA RestLoadChange ==
  /\ NoLoad \in Loads /\ NoChange \in Changes
  /\ NoLoad.at = "idle" /\ NoChange.at = "idle" /\ NoChange.kept
  BY EntryAssumption DEF NoLoad, NoChange, Loads, Changes, Value

\* A change that was refused stays what it is otherwise.
LEMMA ChangeRefused ==
  ASSUME NEW h \in Handler, change \in [Handler -> Changes],
         change' = [change EXCEPT ![h].at = "refused"]
  PROVE  /\ change' \in [Handler -> Changes] /\ change'[h].at = "refused"
         /\ change'[h].op = change[h].op /\ change'[h].entry = change[h].entry
         /\ change'[h].value = change[h].value /\ change'[h].before = change[h].before
         /\ change'[h].dropped = change[h].dropped /\ change'[h].kept = change[h].kept
         /\ \A g \in Handler \ {h} : change'[g] = change[g]
<1>1. change[h] \in Changes
  OBVIOUS
<1> DEFINE c == [change[h] EXCEPT !.at = "refused"]
<1>2. c \in Changes
  BY <1>1 DEF Changes
<1>3. /\ c.at = "refused" /\ c.op = change[h].op /\ c.entry = change[h].entry
      /\ c.value = change[h].value /\ c.before = change[h].before
      /\ c.dropped = change[h].dropped /\ c.kept = change[h].kept
  BY <1>1 DEF Changes
<1>4. change' = [change EXCEPT ![h] = c]
  OBVIOUS
<1> HIDE DEF c
<1> QED
  BY <1>2, <1>3, <1>4

\* Is the change under way at h still the same one, at the same stage?
Same(h) ==
    /\ change'[h].at = change[h].at /\ change'[h].op = change[h].op
    /\ change'[h].entry = change[h].entry /\ change'[h].value = change[h].value
    /\ change'[h].before = change[h].before /\ change'[h].dropped = change[h].dropped
    /\ change'[h].kept = change[h].kept

\* A change that is overtaken is otherwise the same.
LEMMA OvertakenIs ==
  ASSUME NEW c \in Changes, NEW e
  PROVE  /\ Overtaken(c, e) \in Changes
         /\ Overtaken(c, e).at = c.at /\ Overtaken(c, e).op = c.op
         /\ Overtaken(c, e).entry = c.entry /\ Overtaken(c, e).value = c.value
         /\ Overtaken(c, e).before = c.before /\ Overtaken(c, e).dropped = c.dropped
         /\ Overtaken(c, e).kept = c.kept
         /\ Overtaken(c, e).late = (c.late \/ (c.at = "done" /\ c.entry = e))
  BY DEF Overtaken, Changes

\* So are the reads.
LEMMA ReadsAre ==
  ASSUME load \in [Handler -> Loads], load' = ReadsOvertaken
  PROVE  /\ load' \in [Handler -> Loads]
         /\ \A l \in Handler :
              /\ load'[l].at = load[l].at /\ load'[l].rows = load[l].rows
              /\ load'[l].late = (load[l].late \/ load[l].at = "read")
<1>1. ASSUME NEW l \in Handler
      PROVE  /\ load'[l] \in Loads
             /\ load'[l].at = load[l].at /\ load'[l].rows = load[l].rows
             /\ load'[l].late = (load[l].late \/ load[l].at = "read")
  <2>1. load[l] \in Loads /\ load'[l] = [load[l] EXCEPT !.late = @ \/ load[l].at = "read"]
    BY DEF ReadsOvertaken
  <2> QED
    BY <2>1 DEF Loads
<1>2. load' = [l \in Handler |-> load'[l]]
  BY DEF ReadsOvertaken
<1> QED
  BY <1>1, <1>2

\* A change becomes another.
LEMMA ChangeIs ==
  ASSUME NEW h \in Handler, NEW c \in Changes,
         change \in [Handler -> Changes], change' = [change EXCEPT ![h] = c]
  PROVE  /\ change' \in [Handler -> Changes] /\ change'[h] = c
         /\ \A g \in Handler \ {h} : change'[g] = change[g]
  OBVIOUS

\* A question becomes another.
LEMMA LoadIs ==
  ASSUME NEW h \in Handler, NEW l \in Loads,
         load \in [Handler -> Loads], load' = [load EXCEPT ![h] = l]
  PROVE  /\ load' \in [Handler -> Loads] /\ load'[h] = l
         /\ \A g \in Handler \ {h} : load'[g] = load[g]
  OBVIOUS

\* A question is asked, and the directory gives up the others.
LEMMA LoadAsked ==
  ASSUME NEW h \in Handler, load \in [Handler -> Loads], load' = Asked(h)
  PROVE  /\ load' \in [Handler -> Loads] /\ load'[h].at = "asked" /\ ~load'[h].late
         /\ \A g \in Handler \ {h} : load'[g] = load[g] \/ load'[g].at = "idle"
         /\ listing # Employees => \A g \in Handler \ {h} : load'[g] = load[g]
<1> DEFINE l == [NoLoad EXCEPT !.at = "asked"]
<1>1. l \in Loads /\ l.at = "asked" /\ ~l.late /\ NoLoad \in Loads /\ NoLoad.at = "idle"
  BY DEF NoLoad, Loads
<1>2. load' = [g \in Handler |-> IF g = h THEN l
                                ELSE IF listing = Employees THEN NoLoad ELSE load[g]]
  BY DEF Asked
<1> HIDE DEF l
<1> QED
  BY <1>1, <1>2

\* ListInv holds before a page is opened.
LEMMA ListInitially == CalmInit /\ ListInit => ListInv
<1> SUFFICES ASSUME ListInit PROVE ListInv
  OBVIOUS
<1>1. /\ listing \in Listings /\ (~calm => listing # Employees)
      /\ table \in [Entry -> {"new", "a"}]
      /\ answer = table /\ list = ListsOf(table)
      /\ behind = FALSE /\ unsaved = {}
      /\ load = [h \in Handler |-> NoLoad] /\ change = [h \in Handler |-> NoChange]
  BY DEF ListInit
<1>2. \A e \in Entry : list[e] = Line(table[e])
  BY <1>1, ListsLine
<1>3. list \in [Entry -> Shows]
  <2>1. list = [e \in Entry |-> Line(table[e])]
    BY <1>1 DEF ListsOf, Line
  <2> QED
    BY <2>1, LineShows
<1>4. table \in [Entry -> Content] /\ answer \in [Entry -> Content]
  BY <1>1 DEF Content, Value
<1>5. /\ load \in [Handler -> Loads] /\ change \in [Handler -> Changes]
      /\ \A h \in Handler : load[h].at = "idle" /\ change[h].at = "idle" /\ change[h].kept
  BY <1>1, RestLoadChange
<1>6. ListTypeOK
  BY <1>1, <1>3, <1>4, <1>5 DEF ListTypeOK, Loads, Changes
<1>7. \A e \in Entry : AnswersOf(e) = {}
  BY <1>5 DEF AnswersOf
<1>8. Apart /\ InTime /\ PatchListed /\ ReloadListed /\ AheadListed
  BY <1>1, <1>2, <1>5, <1>7, ListingWays DEF Apart, InTime, PatchListed, ReloadListed, AheadListed
<1> QED
  BY <1>6, <1>8 DEF ListInv


\* ListInv is inductive.
LEMMA ListStep == ListInv /\ [ListNext]_<<listVars, calm>> => ListInv'
<1> SUFFICES ASSUME ListInv, [ListNext]_<<listVars, calm>> PROVE ListInv'
  OBVIOUS
<1>t. /\ listing \in Listings
      /\ table \in [Entry -> Content]
      /\ list \in [Entry -> Shows]
      /\ answer \in [Entry -> Content]
      /\ behind \in BOOLEAN /\ unsaved \subseteq Entry
      /\ load \in [Handler -> Loads] /\ change \in [Handler -> Changes]
      /\ \A h \in Handler : change[h].at # "idle" => change[h].op \in listing.ops
  BY DEF ListInv, ListTypeOK, Loads, Changes
<1>i. Apart /\ InTime /\ PatchListed /\ ReloadListed /\ AheadListed
  BY DEF ListInv
<1>w. /\ listing = Employees <=> listing.way = "ahead"
      /\ listing = Employees => listing.ops = {"update"} /\ ~listing.polls
      /\ listing.way = "patch" => listing = Branches /\ ~listing.empties
      /\ listing.way \in {"patch", "reload", "ahead"}
      /\ listing.ops \subseteq {"add", "update", "remove"}
  BY <1>t, ListingWays
<1>f. \A h \in Handler : /\ change[h] \in Changes /\ load[h] \in Loads
                         /\ change[h].entry \in Entry /\ change[h].value \in Value
                         /\ change[h].op \in {"add", "update", "remove"}
                         /\ change[h].kept \in BOOLEAN /\ change[h].dropped \subseteq Entry
                         /\ change[h].late \in BOOLEAN /\ load[h].late \in BOOLEAN
  BY <1>t DEF Changes, Loads
<1>r. /\ NoLoad.at = "idle" /\ NoChange.at = "idle" /\ NoChange.kept
      /\ NoLoad \in Loads /\ NoChange \in Changes
  BY RestLoadChange
\* Where no change moves on and nothing is listed or made, that a row's answers list it
\* right goes on.
<1>s. ASSUME UNCHANGED <<listing, table, list, behind>>,
             \A h \in Handler : /\ change'[h].at = "done" <=> change[h].at = "done"
                                /\ change[h].at = "done" => change'[h] = change[h]
      PROVE  PatchListed' /\ (\A e \in Entry : AnswersOf(e)' = AnswersOf(e))
  <2>1. \A e \in Entry : AnswersOf(e)' = AnswersOf(e)
    BY <1>s DEF AnswersOf
  <2>2. \A e \in Entry : \A h \in AnswersOf(e) : change'[h] = change[h]
    BY <1>s DEF AnswersOf
  <2>3. \A e \in Entry : \A h \in AnswersOf(e) : Follows(change[h])' <=> Follows(change[h])
    BY <1>s, <2>2 DEF Follows
  <2> QED
    BY <1>i, <1>s, <2>1, <2>2, <2>3 DEF PatchListed
<1>1. ASSUME NEW h \in Handler, Poll(h) PROVE ListInv'
  <2>1. /\ listing.polls /\ load[h].at = "idle" /\ (calm => AtRest) /\ load' = Asked(h)
        /\ UNCHANGED <<listing, table, list, answer, behind, unsaved, change, calm>>
    BY <1>1 DEF Poll, Undisturbed
  <2>2. /\ load' \in [Handler -> Loads] /\ load'[h].at = "asked"
        /\ \A g \in Handler \ {h} : load'[g] = load[g]
    BY <1>t, <1>w, <2>1, LoadAsked
  <2>3. ListTypeOK'
    BY <1>t, <2>1, <2>2 DEF ListTypeOK, Loads, Changes
  <2>4. PatchListed' /\ (\A e \in Entry : AnswersOf(e)' = AnswersOf(e))
    BY <1>s, <2>1
  <2>5. Apart'
    BY <1>i, <2>1, <2>2 DEF Apart, AtRest
  <2>6. InTime'
    BY <1>i, <2>1, <2>2, <2>4 DEF InTime
  <2>7. ReloadListed'
    BY <1>i, <2>1, <2>2 DEF ReloadListed
  <2>8. AheadListed'
    BY <1>w, <2>1 DEF AheadListed
  <2> QED
    BY <2>3, <2>4, <2>5, <2>6, <2>7, <2>8 DEF ListInv
<1>2. ASSUME NEW h \in Handler, ListRead(h) PROVE ListInv'
  <2> DEFINE l == [at |-> "read", rows |-> table, late |-> FALSE]
  <2>1. /\ load[h].at = "asked" /\ load' = [load EXCEPT ![h] = l]
        /\ UNCHANGED <<listing, table, list, answer, behind, unsaved, change, calm>>
    BY <1>2 DEF ListRead
  <2>2. l \in Loads /\ l.at = "read" /\ l.rows = table /\ ~l.late
    BY <1>t DEF Loads
  <2> HIDE DEF l
  <2>3. /\ load' \in [Handler -> Loads] /\ load'[h] = l
        /\ \A g \in Handler \ {h} : load'[g] = load[g]
    BY <1>t, <2>1, <2>2, LoadIs
  <2>4. ListTypeOK'
    BY <1>t, <2>1, <2>3 DEF ListTypeOK, Loads, Changes
  <2>5. PatchListed' /\ (\A e \in Entry : AnswersOf(e)' = AnswersOf(e))
    BY <1>s, <2>1
  <2>6. Apart'
    BY <1>i, <2>1, <2>2, <2>3 DEF Apart
  <2>7. InTime'
    BY <1>i, <1>t, <2>1, <2>2, <2>3, <2>5 DEF InTime
  <2>8. ReloadListed'
    BY <1>i, <2>1, <2>2, <2>3 DEF ReloadListed
  <2>9. AheadListed'
    BY <1>i, <2>1 DEF AheadListed, Ahead
  <2> QED
    BY <2>4, <2>5, <2>6, <2>7, <2>8, <2>9 DEF ListInv
<1>3. ASSUME NEW h \in Handler, ListLoaded(h) PROVE ListInv'
  <2>1. /\ load[h].at = "read" /\ load' = [load EXCEPT ![h] = NoLoad]
        /\ answer' = IF listing.way = "ahead" THEN load[h].rows ELSE answer
        /\ UNCHANGED <<listing, table, change, calm>>
        /\ \/ listing.way = "ahead" /\ UNCHANGED <<list, unsaved, behind>>
           \/ list' = ListsOf(load[h].rows) /\ unsaved' = {} /\ behind' = load[h].late
    BY <1>3 DEF ListLoaded
  <2>2. /\ load' \in [Handler -> Loads] /\ load'[h] = NoLoad
        /\ \A g \in Handler \ {h} : load'[g] = load[g]
    BY <1>r, <1>t, <2>1, LoadIs
  <2>3. answer' \in [Entry -> Content] /\ (~load[h].late => load[h].rows = table)
    BY <1>i, <1>t, <2>1 DEF InTime
  <2>4. Apart' /\ InTime'
    <3>1. \A e \in Entry : AnswersOf(e)' = AnswersOf(e)
      BY <2>1 DEF AnswersOf
    <3>2. listing.way # "ahead" => unsaved' = {}
      BY <2>1
    <3> QED
      BY <1>i, <1>r, <2>1, <2>2, <3>1, <3>2 DEF Apart, InTime
  <2>5. listing.way = "ahead" => \A g \in Handler : change[g].at = "idle"
    BY <1>i, <2>1 DEF Apart
  <2>6. CASE list' = ListsOf(load[h].rows) /\ unsaved' = {} /\ behind' = load[h].late
    <3>1. list' \in [Entry -> Shows]
      <4>1. list' = [e \in Entry |-> Line(load[h].rows[e])]
        BY <2>6 DEF ListsOf, Line
      <4> QED
        BY <4>1, LineShows
    <3>2. ~behind' => \A e \in Entry : list'[e] = Line(table[e])
      BY <2>3, <2>6, ListsLine
    <3>3. ListTypeOK'
      BY <1>f, <1>t, <2>1, <2>2, <2>3, <2>6, <3>1 DEF ListTypeOK, Loads, Changes
    <3>4. ReloadListed' /\ AheadListed'
      BY <2>1, <2>5, <3>2 DEF ReloadListed, AheadListed
    <3>5. PatchListed'
      <4> SUFFICES ASSUME listing.way = "patch", ~behind', NEW e \in Entry,
                          \A g \in AnswersOf(e) : ~change[g].late
                   PROVE  /\ list'[e] = Line(table[e])
                          /\ \A g \in AnswersOf(e) : Follows(change[g])'
        BY <2>1 DEF PatchListed, AnswersOf
      <4>1. list'[e] = Line(table[e])
        BY <3>2
      <4>2. ASSUME NEW g \in AnswersOf(e) PROVE Follows(change[g])'
        <5>1. PICK c \in Changes : c = change[g]
          BY <1>f DEF AnswersOf
        <5>2. /\ g \in Handler /\ c.entry = e /\ c.value \in Value
              /\ c.op \in {"add", "update", "remove"} /\ c.kept
              /\ table[e] = IF c.op = "remove" THEN "gone" ELSE c.value
          BY <1>f, <1>i, <5>1 DEF AnswersOf, InTime, Apart
        <5>3. c.op = "add" => list'[e] # <<>>
          BY <4>1, <5>2 DEF Line
        <5>4. c.op = "update" => PatchedLine(list'[e], c.op, c.value) = Line(table[e])
          BY <4>1, <5>2, PatchedRight DEF Line
        <5>5. c.op = "remove" => PatchedLine(list'[e], c.op, c.value) = Line(table[e])
          BY <5>2, PatchedRight
        <5> QED
          BY <2>1, <5>1, <5>2, <5>3, <5>4, <5>5 DEF Follows
      <4> QED
        BY <4>1, <4>2
    <3> QED
      BY <2>4, <3>3, <3>4, <3>5 DEF ListInv
  <2>7. CASE listing.way = "ahead" /\ UNCHANGED <<list, unsaved, behind>>
    <3>1. ListTypeOK'
      BY <1>t, <2>1, <2>2, <2>3, <2>7 DEF ListTypeOK, Loads, Changes
    <3>2. PatchListed' /\ ReloadListed' /\ AheadListed'
      BY <1>i, <2>1, <2>5, <2>7 DEF PatchListed, ReloadListed, AheadListed
    <3> QED
      BY <2>4, <3>1, <3>2 DEF ListInv
  <2> QED
    BY <2>1, <2>6, <2>7
<1>4. ASSUME NEW h \in Handler, ListFails(h) PROVE ListInv'
  <2>1. /\ load[h].at # "idle" /\ load' = [load EXCEPT ![h] = NoLoad]
        /\ behind' = (behind \/ listing.way # "patch")
        /\ list' = IF listing.empties THEN [e \in Entry |-> <<>>] ELSE list
        /\ UNCHANGED <<listing, table, answer, unsaved, change, calm>>
    BY <1>4 DEF ListFails
  <2>2. /\ load' \in [Handler -> Loads] /\ load'[h] = NoLoad
        /\ \A g \in Handler \ {h} : load'[g] = load[g]
    BY <1>r, <1>t, <2>1, LoadIs
  <2>3. list' \in [Entry -> Shows]
    BY <1>t, <2>1 DEF Shows
  <2>4. ListTypeOK'
    BY <1>t, <2>1, <2>2, <2>3 DEF ListTypeOK, Loads, Changes
  <2>5. Apart' /\ InTime'
    <3>1. \A e \in Entry : AnswersOf(e)' = AnswersOf(e)
      BY <2>1 DEF AnswersOf
    <3> QED
      BY <1>i, <1>r, <2>1, <2>2, <3>1 DEF Apart, InTime
  <2>6. PatchListed'
    <3>1. CASE listing.way = "patch"
      <4>1. UNCHANGED <<listing, table, list, behind>>
        BY <1>t, <1>w, <2>1, <3>1
      <4> QED
        BY <1>s, <2>1, <4>1
    <3>2. CASE listing.way # "patch"
      BY <2>1, <3>2 DEF PatchListed
    <3> QED
      BY <3>1, <3>2
  <2>7. ReloadListed'
    BY <2>1 DEF ReloadListed
  <2>8. AheadListed'
    BY <1>i, <2>1 DEF Apart, AheadListed
  <2> QED
    BY <2>4, <2>5, <2>6, <2>7, <2>8 DEF ListInv
<1>5. ASSUME NEW h \in Handler, NEW op \in listing.ops, NEW e \in Entry, NEW v \in Value,
             NEW kept \in BOOLEAN, NEW before \in {<<>>} \cup [Entry -> Shows],
             change' = [change EXCEPT ![h] = [at |-> "sent", op |-> op, entry |-> e, value |-> v,
                                              before |-> before, dropped |-> unsaved,
                                              kept |-> kept, late |-> FALSE]]
      PROVE  /\ change' \in [Handler -> Changes]
             /\ change'[h].at = "sent" /\ change'[h].op = op /\ change'[h].entry = e
             /\ change'[h].value = v /\ change'[h].before = before
             /\ change'[h].dropped = unsaved /\ change'[h].kept = kept
             /\ \A g \in Handler \ {h} : change'[g] = change[g]
  <2> DEFINE c == [at |-> "sent", op |-> op, entry |-> e, value |-> v, before |-> before,
                   dropped |-> unsaved, kept |-> kept, late |-> FALSE]
  <2>1. change' = [change EXCEPT ![h] = c]
    BY <1>5
  <2>2. /\ c \in Changes /\ c.at = "sent" /\ c.op = op /\ c.entry = e /\ c.value = v
        /\ c.before = before /\ c.dropped = unsaved /\ c.kept = kept
    BY <1>t, <1>w DEF Changes
  <2> HIDE DEF c
  <2>3. /\ change' \in [Handler -> Changes] /\ change'[h] = c
        /\ \A g \in Handler \ {h} : change'[g] = change[g]
    BY <1>t, <2>1, <2>2, ChangeIs
  <2> QED
    BY <2>2, <2>3
<1>6. ASSUME NEW h \in Handler, NEW op, NEW e \in Entry, NEW v \in Value, SendAndWait(h, op, e, v)
      PROVE  ListInv'
  <2>0. PICK kept \in BOOLEAN, before \in {<<>>} \cup [Entry -> Shows] :
          kept = TRUE /\ before = <<>>
    OBVIOUS
  <2>1. /\ listing.way # "ahead" /\ op \in listing.ops
        /\ change[h].at = "idle" /\ (calm => AtRest)
        /\ change' = [change EXCEPT ![h] = [at |-> "sent", op |-> op, entry |-> e, value |-> v,
                                            before |-> before, dropped |-> unsaved,
                                            kept |-> kept, late |-> FALSE]]
        /\ UNCHANGED <<listing, table, list, answer, behind, unsaved, load, calm>>
    BY <1>6, <2>0 DEF SendAndWait, Send, Undisturbed
  <2>2. /\ change' \in [Handler -> Changes]
        /\ change'[h].at = "sent" /\ change'[h].op = op /\ change'[h].kept
        /\ \A g \in Handler \ {h} : change'[g] = change[g]
    BY <1>5, <2>0, <2>1
  <2>3. ListTypeOK'
    BY <1>t, <2>1, <2>2 DEF ListTypeOK, Loads, Changes
  <2>4. Apart'
    BY <1>i, <2>1, <2>2 DEF Apart, AtRest
  <2>5. PatchListed' /\ (\A d \in Entry : AnswersOf(d)' = AnswersOf(d))
    <3>1. \A g \in Handler : /\ change'[g].at = "done" <=> change[g].at = "done"
                             /\ change[g].at = "done" => change'[g] = change[g]
      BY <2>1, <2>2
    <3> QED
      BY <1>s, <2>1, <3>1
  <2>6. \A g \in Handler : change'[g].at = "done" => change'[g] = change[g]
    BY <2>2
  <2>7. InTime'
    <3>1. \A d \in Entry : \A g \in AnswersOf(d) : change'[g] = change[g]
      BY <2>1, <2>2 DEF AnswersOf
    <3> QED
      BY <1>i, <2>1, <2>5, <2>6, <3>1 DEF InTime
  <2>8. ReloadListed'
    BY <1>i, <2>1, <2>2 DEF ReloadListed
  <2>9. AheadListed'
    BY <2>1 DEF AheadListed
  <2> QED
    BY <2>3, <2>4, <2>5, <2>7, <2>8, <2>9 DEF ListInv
<1>7. ASSUME NEW h \in Handler, EditProfile(h) PROVE ListInv'
  <2>1. PICK e \in Entry, kept \in BOOLEAN :
          /\ listing = Employees /\ list[e] # <<>>
          /\ "update" \in listing.ops
          /\ change[h].at = "idle" /\ (calm => AtRest)
          /\ change' = [change EXCEPT ![h] = [at |-> "sent", op |-> "update", entry |-> e,
                                              value |-> Other(list[e][1]), before |-> list,
                                              dropped |-> unsaved, kept |-> kept,
                                              late |-> FALSE]]
          /\ UNCHANGED <<listing, table, answer, behind, load, calm>>
          /\ list' = [list EXCEPT ![e] = <<Other(list[e][1])>>]
          /\ unsaved' = IF kept THEN unsaved ELSE unsaved \cup {e}
    BY <1>7 DEF EditProfile, Send, Undisturbed
  <2>2. PICK v \in Value : v = Other(list[e][1])
    BY <1>t, <2>1, FirstValue DEF Other, Value
  <2>20. PICK op \in listing.ops, before \in {<<>>} \cup [Entry -> Shows] :
           op = "update" /\ before = list
    BY <1>t, <2>1
  <2>3. change' = [change EXCEPT ![h] = [at |-> "sent", op |-> op, entry |-> e, value |-> v,
                                         before |-> before, dropped |-> unsaved,
                                         kept |-> kept, late |-> FALSE]]
    BY <2>1, <2>2, <2>20
  <2>4. /\ change[h].at = "idle" /\ (calm => AtRest)
        /\ UNCHANGED <<listing, table, answer, behind, load, calm>>
    BY <2>1
  <2>40. /\ change' \in [Handler -> Changes]
         /\ change'[h].at = "sent" /\ change'[h].op = op /\ change'[h].entry = e
         /\ change'[h].value = v /\ change'[h].before = before /\ change'[h].dropped = unsaved
         /\ change'[h].kept = kept
         /\ \A g \in Handler \ {h} : change'[g] = change[g]
    BY <1>5, <2>3
  <2>41. /\ change' \in [Handler -> Changes]
         /\ change'[h].at = "sent" /\ change'[h].op = "update" /\ change'[h].entry = e
         /\ change'[h].value = v /\ change'[h].before = list /\ change'[h].dropped = unsaved
         /\ change'[h].kept = kept
         /\ \A g \in Handler \ {h} : change'[g] = change[g]
    BY <2>20, <2>40
  <2>5. /\ list' \in [Entry -> Shows] /\ list'[e] = <<v>>
        /\ \A d \in Entry \ {e} : list'[d] = list[d]
    BY <1>t, <2>1, <2>2 DEF Shows
  <2>6. ListTypeOK'
    BY <1>t, <1>w, <2>1, <2>4, <2>41, <2>5 DEF ListTypeOK, Loads, Changes
  <2>7. calm /\ \A g \in Handler : change[g].at = "idle" /\ load[g].at = "idle"
    BY <1>i, <1>w, <2>1 DEF Apart, AtRest
  <2>8. Apart' /\ InTime' /\ PatchListed' /\ ReloadListed'
    <3>1. \A g \in Handler : change'[g].at # "done" /\ load'[g].at # "read"
      BY <2>4, <2>41, <2>7
    <3>2. \A d \in Entry : AnswersOf(d)' = {}
      BY <3>1 DEF AnswersOf
    <3> QED
      BY <1>i, <1>w, <2>1, <2>4, <2>41, <2>7, <3>1, <3>2
         DEF Apart, InTime, PatchListed, ReloadListed
  <2>9. ~behind => \A d \in Entry \ unsaved : list[d] = Line(table[d])
    BY <1>i, <1>w, <2>1, <2>7 DEF AheadListed
  <2>10. Ahead(change[h])'
    <3>1. kept \/ e \in unsaved'
      BY <2>1
    <3> QED
      BY <1>t, <2>4, <2>41, <2>5, <2>9, <3>1 DEF Ahead
  <2>11. AheadListed'
    BY <2>1, <2>4, <2>41, <2>5, <2>7, <2>9, <2>10 DEF AheadListed
  <2> QED
    BY <2>6, <2>8, <2>11 DEF ListInv
<1>8. ASSUME NEW h \in Handler, ServerChanges(h) PROVE ListInv'
  <2>1. PICK c \in Changes : c = change[h]
    BY <1>f
  <2>2. PICK e \in Entry : e = c.entry
    BY <1>f, <2>1
  <2>3. /\ c.at = "sent"
        /\ change' = [g \in Handler |-> IF g = h THEN [c EXCEPT !.at = "done"]
                                        ELSE Overtaken(change[g], e)]
        /\ IF c.op = "add" THEN table[e] = "new" ELSE table[e] \in Value
        /\ table' = IF ~c.kept THEN table
                    ELSE [table EXCEPT ![e] = IF c.op = "remove" THEN "gone" ELSE c.value]
        /\ load' = ReadsOvertaken
        /\ UNCHANGED <<listing, list, answer, behind, unsaved, calm>>
    BY <1>8, <2>1, <2>2 DEF ServerChanges
  <2>4. PICK d \in Changes : d = [c EXCEPT !.at = "done"]
    <3>1. [c EXCEPT !.at = "done"] \in Changes
      BY <2>1 DEF Changes
    <3> QED
      BY <3>1
  <2>40. /\ d.at = "done" /\ d.op = c.op /\ d.entry = e /\ d.value = c.value
         /\ d.before = c.before /\ d.dropped = c.dropped /\ d.kept = c.kept
    BY <2>1, <2>2, <2>4 DEF Changes
  <2>5. /\ change'[h] = d
        /\ \A g \in Handler \ {h} :
             /\ Same(g) /\ change'[g] = Overtaken(change[g], e)
             /\ change'[g].late = (change[g].late \/ (change[g].at = "done" /\ change[g].entry = e))
    BY <1>f, <2>3, <2>4, OvertakenIs DEF Same
  <2>6. change' \in [Handler -> Changes]
    <3>1. \A g \in Handler : change'[g] \in Changes
      BY <1>f, <2>5, OvertakenIs
    <3> QED
      BY <2>3, <3>1
  <2>7. /\ load' \in [Handler -> Loads]
        /\ \A l \in Handler : /\ load'[l].at = load[l].at /\ load'[l].rows = load[l].rows
                              /\ load'[l].late = (load[l].late \/ load[l].at = "read")
    BY <1>t, <2>3, ReadsAre
  <2>8. /\ c.op \in {"add", "update", "remove"} /\ c.value \in Value /\ c.kept \in BOOLEAN
        /\ c.op \in listing.ops
    BY <1>f, <1>t, <2>1, <2>3
  <2>9. /\ table' \in [Entry -> Content] /\ \A x \in Entry \ {e} : table'[x] = table[x]
        /\ c.kept => table'[e] = IF c.op = "remove" THEN "gone" ELSE c.value
    BY <1>t, <2>3, <2>8 DEF Content
  <2>10. ListTypeOK'
    <3>1. \A g \in Handler : change'[g].at # "idle" => change'[g].op \in listing.ops
      BY <1>t, <2>40, <2>5, <2>8 DEF Same
    <3> QED
      BY <1>t, <2>3, <2>6, <2>7, <2>9, <3>1 DEF ListTypeOK, Loads, Changes
  <2>11. \A g \in Handler : /\ change'[g].at # "idle" <=> change[g].at # "idle"
                            /\ change'[g].kept = change[g].kept
    BY <2>1, <2>3, <2>40, <2>5 DEF Same
  <2>12. Apart'
    BY <1>i, <2>3, <2>7, <2>11 DEF Apart
  <2>13. /\ \A x \in Entry \ {e} : AnswersOf(x)' = AnswersOf(x)
         /\ AnswersOf(e)' = AnswersOf(e) \cup {h} /\ h \notin AnswersOf(e)
         /\ \A g \in AnswersOf(e) : change'[g].late
    <3>0. /\ change'[h].at = "done" /\ change'[h].entry = e
          /\ change[h].at = "sent" /\ change[h].entry = e
          /\ \A g \in Handler \ {h} :
               change'[g].at = change[g].at /\ change'[g].entry = change[g].entry
      BY <2>1, <2>2, <2>3, <2>40, <2>5 DEF Same
    <3>1. h \notin AnswersOf(e)
      BY <3>0 DEF AnswersOf
    <3>2. ASSUME NEW x \in Entry \ {e} PROVE AnswersOf(x)' = AnswersOf(x)
      <4>1. \A g \in Handler : (change'[g].at = "done" /\ change'[g].entry = x)
                                <=> (change[g].at = "done" /\ change[g].entry = x)
        BY <3>0
      <4> QED
        BY <4>1 DEF AnswersOf
    <3>3. AnswersOf(e)' = AnswersOf(e) \cup {h}
      <4>1. \A g \in Handler : (change'[g].at = "done" /\ change'[g].entry = e)
                                <=> (g = h \/ (change[g].at = "done" /\ change[g].entry = e))
        BY <3>0
      <4> QED
        BY <4>1 DEF AnswersOf
    <3>4. \A g \in AnswersOf(e) : change'[g].late
      BY <2>5, <3>1 DEF AnswersOf
    <3> QED
      BY <3>1, <3>2, <3>3, <3>4
  <2>14. InTime'
    <3>1. ASSUME NEW g \in Handler, load'[g].at = "read"
          PROVE  load'[g].rows \in [Entry -> Content] /\ load'[g].late
      BY <1>i, <2>7, <3>1 DEF InTime
    <3>2. ASSUME NEW g \in Handler, change'[g].at = "done", ~change'[g].late, change'[g].kept
          PROVE  table'[change'[g].entry]
                    = IF change'[g].op = "remove" THEN "gone" ELSE change'[g].value
      <4>1. CASE g = h
        <5>1. change'[g] = d /\ c.kept
          BY <2>40, <2>5, <3>2, <4>1
        <5>2. table'[e] = IF d.op = "remove" THEN "gone" ELSE d.value
          BY <2>9, <2>40, <5>1
        <5> QED
          BY <2>40, <5>1, <5>2
      <4>2. CASE g # h
        <5>1. /\ change[g].at = "done" /\ ~change[g].late /\ change[g].kept
              /\ change[g].entry \in Entry \ {e}
              /\ change'[g].entry = change[g].entry /\ change'[g].op = change[g].op
              /\ change'[g].value = change[g].value
          BY <1>f, <2>5, <3>2, <4>2 DEF Same
        <5> QED
          BY <1>i, <2>9, <5>1 DEF InTime
      <4> QED
        BY <4>1, <4>2
    <3>3. ASSUME NEW x \in Entry, NEW f \in AnswersOf(x)', NEW g \in AnswersOf(x)',
                 ~change'[f].late, ~change'[g].late
          PROVE  f = g
      <4>1. CASE x = e
        BY <2>13, <3>3, <4>1
      <4>2. CASE x # e
        <5>1. f \in AnswersOf(x) /\ g \in AnswersOf(x)
          BY <2>13, <4>2
        <5>2. f \in Handler \ {h} /\ g \in Handler \ {h}
          BY <2>1, <2>2, <4>2, <5>1 DEF AnswersOf
        <5>3. ~change[f].late /\ ~change[g].late
          BY <2>5, <3>3, <5>2
        <5> QED
          BY <1>i, <5>1, <5>3 DEF InTime
      <4> QED
        BY <4>1, <4>2
    <3> QED
      BY <3>1, <3>2, <3>3 DEF InTime
  <2>15. PatchListed'
    <3> SUFFICES ASSUME listing.way = "patch", ~behind, NEW x \in Entry,
                        \A g \in AnswersOf(x)' : ~change'[g].late
                 PROVE  /\ AnswersOf(x)' = {} => list[x] = Line(table'[x])
                        /\ \A g \in AnswersOf(x)' : Follows(change[g])'
      BY <2>3 DEF PatchListed
    <3>1. CASE x # e
      <4>1. AnswersOf(x)' = AnswersOf(x) /\ \A g \in AnswersOf(x) : g \in Handler \ {h} /\ Same(g)
        BY <2>1, <2>2, <2>5, <2>13, <3>1 DEF AnswersOf
      <4>2. \A g \in AnswersOf(x) : ~change[g].late
        BY <2>5, <4>1
      <4>3. ASSUME NEW g \in AnswersOf(x) PROVE Follows(change[g])'
        <5>1. Follows(change[g]) /\ change[g].entry = x
          BY <1>i, <4>2 DEF PatchListed, AnswersOf
        <5> QED
          BY <2>3, <2>9, <3>1, <4>1, <5>1 DEF Follows, Same
      <4> QED
        BY <1>i, <2>9, <3>1, <4>1, <4>2, <4>3 DEF PatchListed
    <3>2. CASE x = e
      <4>1. AnswersOf(e) = {} /\ AnswersOf(e)' = {h}
        BY <2>13, <3>2
      <4>2. list[e] = Line(table[e]) /\ c.kept
        BY <1>i, <2>1, <4>1 DEF PatchListed, Apart
      <4>3. PatchedLine(list[e], c.op, c.value) = Line(table'[e])
        <5>1. CASE c.op = "add"
          <6>1. list[e] = <<>>
            BY <2>3, <4>2, <5>1 DEF Line, Value
          <6> QED
            BY <2>8, <2>9, <4>2, <5>1, <6>1, PatchedRight
        <5>2. CASE c.op = "remove"
          BY <2>8, <2>9, <4>2, <5>2, PatchedRight
        <5>3. CASE c.op = "update"
          <6>1. table[e] \in Value /\ list[e] = <<table[e]>>
            BY <2>3, <4>2, <5>3 DEF Line
          <6> QED
            BY <2>8, <2>9, <4>2, <5>3, <6>1, PatchedRight
        <5> QED
          BY <2>8, <5>1, <5>2, <5>3
      <4>4. Follows(change[h])'
        BY <2>3, <2>40, <2>5, <4>3 DEF Follows
      <4> QED
        BY <3>2, <4>1, <4>4
    <3> QED
      BY <3>1, <3>2
  <2>16. ReloadListed'
    BY <2>40, <2>5 DEF ReloadListed
  <2>17. AheadListed'
    <3> SUFFICES ASSUME listing.way = "ahead" PROVE AheadListed'
      BY <2>3 DEF AheadListed
    <3>1. Ahead(c) /\ calm /\ \A g \in Handler \ {h} : change[g].at = "idle"
      BY <1>i, <2>1, <2>3 DEF AheadListed, Apart
    <3>2. ~behind /\ e \notin unsaved => list[e] = Line(table'[e])
      BY <2>2, <2>3, <2>8, <2>9, <3>1 DEF Ahead, Line
    <3>3. Ahead(change[h])'
      BY <2>2, <2>3, <2>40, <2>5, <3>1, <3>2 DEF Ahead
    <3>4. \A g \in Handler : change'[g].at # "idle" => g = h
      BY <2>11, <3>1
    <3>5. ASSUME ~behind, NEW x \in Entry \ unsaved, x # e PROVE list[x] = Line(table'[x])
      <4>1. \A g \in Handler : change[g].at # "idle" => change[g].entry # x
        BY <2>1, <2>2, <3>1, <3>5
      <4> QED
        BY <1>i, <2>9, <3>5, <4>1 DEF AheadListed
    <3>6. change'[h].at # "idle" /\ change'[h].entry = e
      BY <2>40, <2>5
    <3> QED
      BY <2>3, <3>3, <3>4, <3>5, <3>6 DEF AheadListed
  <2> QED
    BY <2>10, <2>12, <2>14, <2>15, <2>16, <2>17 DEF ListInv
<1>9. ASSUME NEW h \in Handler, ServerRefuses(h) PROVE ListInv'
  <2>1. /\ change[h].at = "sent" /\ change' = [change EXCEPT ![h].at = "refused"]
        /\ UNCHANGED <<listing, table, list, answer, behind, unsaved, load, calm>>
    BY <1>9 DEF ServerRefuses
  <2>2. /\ change' \in [Handler -> Changes] /\ change'[h].at = "refused"
        /\ change'[h].op = change[h].op /\ change'[h].entry = change[h].entry
        /\ change'[h].value = change[h].value /\ change'[h].before = change[h].before
        /\ change'[h].dropped = change[h].dropped /\ change'[h].kept = change[h].kept
        /\ \A g \in Handler \ {h} : change'[g] = change[g]
    BY <1>t, <2>1, ChangeRefused
  <2>3. ListTypeOK'
    BY <1>t, <2>1, <2>2 DEF ListTypeOK, Loads, Changes
  <2>4. \A g \in Handler : /\ change'[g].at # "idle" <=> change[g].at # "idle"
                           /\ change'[g].entry = change[g].entry
                           /\ change'[g].kept = change[g].kept
    BY <2>1, <2>2
  <2>5. Apart'
    BY <1>i, <2>1, <2>4 DEF Apart
  <2>6. PatchListed' /\ (\A e \in Entry : AnswersOf(e)' = AnswersOf(e))
    <3>1. \A g \in Handler : /\ change'[g].at = "done" <=> change[g].at = "done"
                             /\ change[g].at = "done" => change'[g] = change[g]
      BY <2>1, <2>2
    <3> QED
      BY <1>s, <2>1, <3>1
  <2>7. InTime' /\ ReloadListed'
    <3>1. \A g \in Handler : /\ change'[g].at = "done" => change'[g] = change[g]
                             /\ change[g].at = "done" => change'[g] = change[g]
      BY <2>1, <2>2
    <3>2. \A e \in Entry : \A g \in AnswersOf(e) : change'[g] = change[g]
      BY <3>1 DEF AnswersOf
    <3> QED
      BY <1>i, <2>1, <2>6, <3>1, <3>2 DEF InTime, ReloadListed
  <2>8. Ahead(change[h]) => Ahead(change[h])'
    BY <2>1, <2>2 DEF Ahead
  <2>9. \A g \in Handler \ {h} : Ahead(change[g]) => Ahead(change[g])'
    BY <2>1, <2>2 DEF Ahead
  <2>10. AheadListed'
    BY <1>i, <2>1, <2>4, <2>8, <2>9 DEF AheadListed
  <2> QED
    BY <2>3, <2>5, <2>6, <2>7, <2>10 DEF ListInv
<1>10. ASSUME NEW h \in Handler, Patch(h) PROVE ListInv'
  <2>1. PICK c \in Changes : c = change[h]
    BY <1>f
  <2>2. PICK e \in Entry : e = c.entry
    BY <1>f, <2>1
  <2>3. PICK x : x = PatchedLine(list[e], c.op, c.value)
    OBVIOUS
  <2>4. /\ c.at = "done" /\ listing.way = "patch" /\ change' = [change EXCEPT ![h] = NoChange]
        /\ behind' = (behind \/ c.late \/ (c.op = "add" /\ list[e] # <<>>))
        /\ UNCHANGED <<listing, table, answer, unsaved, load, calm>>
    BY <1>10, <2>1, <2>2 DEF Patch, Finished
  <2>5. list' = [list EXCEPT ![e] = x]
    BY <1>10, <2>1, <2>2, <2>3 DEF Patch, Patched, PatchedLine
  <2>6. x \in Shows
    BY <1>f, <1>t, <2>1, <2>2, <2>3, PatchedShows
  <2>7. list' \in [Entry -> Shows] /\ list'[e] = x /\ \A d \in Entry \ {e} : list'[d] = list[d]
    BY <1>t, <2>5, <2>6
  <2>8. /\ change' \in [Handler -> Changes] /\ change'[h] = NoChange
        /\ \A g \in Handler \ {h} : change'[g] = change[g]
    BY <1>r, <1>t, <2>4, ChangeIs
  <2>9. ListTypeOK'
    BY <1>f, <1>r, <1>t, <2>1, <2>4, <2>7, <2>8 DEF ListTypeOK, Loads, Changes
  <2>10. Apart'
    BY <1>i, <1>r, <2>4, <2>8 DEF Apart
  <2>11. /\ \A d \in Entry : AnswersOf(d)' = AnswersOf(d) \ {h}
         /\ h \in AnswersOf(e)
         /\ \A d \in Entry \ {e} : h \notin AnswersOf(d)
    BY <1>r, <2>1, <2>2, <2>4, <2>8 DEF AnswersOf
  <2>12. InTime'
    <3>1. \A g \in Handler : change'[g].at = "done" => change'[g] = change[g]
      BY <1>r, <2>8
    <3>2. \A d \in Entry : \A g \in AnswersOf(d)' : g \in AnswersOf(d) /\ change'[g] = change[g]
      BY <2>8, <2>11 DEF AnswersOf
    <3> QED
      BY <1>i, <2>4, <3>1, <3>2 DEF InTime
  <2>13. PatchListed'
    <3> SUFFICES ASSUME ~behind', NEW d \in Entry, \A g \in AnswersOf(d)' : ~change'[g].late
                 PROVE  /\ AnswersOf(d)' = {} => list'[d] = Line(table[d])
                        /\ \A g \in AnswersOf(d)' : Follows(change[g])'
      BY <2>4 DEF PatchListed
    <3>0. ~behind /\ ~c.late /\ (c.op = "add" => list[e] = <<>>)
      BY <1>f, <1>t, <2>1, <2>4
    <3>1. CASE d # e
      <4>1. AnswersOf(d)' = AnswersOf(d) /\ \A g \in AnswersOf(d) : change'[g] = change[g]
        BY <2>8, <2>11, <3>1 DEF AnswersOf
      <4>2. ASSUME NEW g \in AnswersOf(d) PROVE Follows(change[g])'
        <5>1. Follows(change[g]) /\ change[g].entry = d
          BY <1>i, <2>4, <3>0, <4>1 DEF PatchListed, AnswersOf
        <5> QED
          BY <2>4, <2>7, <3>1, <4>1, <5>1 DEF Follows
      <4> QED
        BY <1>i, <2>4, <2>7, <3>0, <3>1, <4>1, <4>2 DEF PatchListed
    <3>2. CASE d = e
      <4>1. \A g \in AnswersOf(e) : ~change[g].late
        <5>1. ~change[h].late
          BY <2>1, <3>0
        <5>2. \A g \in AnswersOf(e) \ {h} : g \in Handler \ {h} /\ g \in AnswersOf(e)'
          BY <2>11 DEF AnswersOf
        <5> QED
          BY <2>8, <3>2, <5>1, <5>2
      <4>2. AnswersOf(e)' = {}
        BY <1>i, <2>11, <4>1 DEF InTime
      <4>3. Follows(c)
        BY <1>i, <2>1, <2>4, <2>11, <3>0, <4>1 DEF PatchListed
      <4>4. x = Line(table[e])
        BY <2>2, <2>3, <3>0, <4>3 DEF Follows
      <4> QED
        BY <2>7, <3>2, <4>2, <4>4
    <3> QED
      BY <3>1, <3>2
  <2>14. ReloadListed' /\ AheadListed'
    BY <2>4 DEF ReloadListed, AheadListed
  <2> QED
    BY <2>9, <2>10, <2>12, <2>13, <2>14 DEF ListInv
<1>11. ASSUME NEW h \in Handler, Reload(h) PROVE ListInv'
  <2>1. PICK l \in Handler :
          /\ change[h].at = "done" /\ listing.way # "patch" /\ load' = Asked(l)
          /\ change' = [change EXCEPT ![h] = NoChange]
          /\ UNCHANGED <<listing, table, list, answer, behind, unsaved, calm>>
    BY <1>11 DEF Reload, Finished
  <2>2. /\ load' \in [Handler -> Loads] /\ load'[l].at = "asked" /\ ~load'[l].late
        /\ \A g \in Handler \ {l} : load'[g] = load[g] \/ load'[g].at = "idle"
    BY <1>t, <2>1, LoadAsked
  <2>3. /\ change' \in [Handler -> Changes] /\ change'[h] = NoChange
        /\ \A g \in Handler \ {h} : change'[g] = change[g]
    BY <1>r, <1>t, <2>1, ChangeIs
  <2>4. ListTypeOK'
    BY <1>r, <1>t, <2>1, <2>2, <2>3 DEF ListTypeOK, Loads, Changes
  <2>5. calm => \A g \in Handler : change'[g].at = "idle" /\ (g # h => change[g].at = "idle")
    BY <1>i, <1>r, <2>1, <2>3 DEF Apart
  <2>6. Apart'
    BY <1>i, <1>r, <2>1, <2>3, <2>5 DEF Apart
  <2>7. InTime'
    <3>1. \A g \in Handler : change'[g].at = "done" => change'[g] = change[g]
      BY <1>r, <2>3
    <3>2. \A d \in Entry : \A g \in AnswersOf(d)' : g \in AnswersOf(d) /\ change'[g] = change[g]
      BY <1>r, <2>3 DEF AnswersOf
    <3>3. \A g \in Handler : load'[g].at = "read" => load'[g] = load[g]
      BY <2>2
    <3> QED
      BY <1>i, <2>1, <3>1, <3>2, <3>3 DEF InTime
  <2>8. PatchListed' /\ ReloadListed'
    BY <2>1, <2>2 DEF PatchListed, ReloadListed
  <2>9. AheadListed'
    <3>1. ASSUME ~behind, listing.way = "ahead", NEW e \in Entry \ unsaved
          PROVE  list[e] = Line(table[e])
      <4>0. \A g \in Handler : change[g].at # "idle" => g = h
        BY <1>i, <2>5, <3>1 DEF Apart
      <4>1. CASE e = change[h].entry
        BY <1>i, <2>1, <3>1, <4>1 DEF AheadListed, Ahead
      <4>2. CASE e # change[h].entry
        BY <1>i, <3>1, <4>0, <4>2 DEF AheadListed
      <4> QED
        BY <4>1, <4>2
    <3>2. listing.way = "ahead" => \A g \in Handler : change'[g].at = "idle"
      BY <1>i, <2>5 DEF Apart
    <3> QED
      BY <2>1, <3>1, <3>2 DEF AheadListed
  <2> QED
    BY <2>4, <2>6, <2>7, <2>8, <2>9 DEF ListInv
<1>12. ASSUME NEW h \in Handler, GiveUp(h) PROVE ListInv'
  <2>1. PICK c \in Changes : c = change[h]
    BY <1>f
  <2>2. /\ c.at \in {"refused", "done"} /\ change' = [change EXCEPT ![h] = NoChange]
        /\ list' = IF listing.way = "ahead" THEN c.before ELSE list
        /\ unsaved' = IF listing.way = "ahead" THEN c.dropped ELSE unsaved
        /\ behind' = (behind \/ c.at = "done")
        /\ UNCHANGED <<listing, table, answer, load, calm>>
    BY <1>12, <2>1 DEF GiveUp, Finished
  <2>3. /\ change' \in [Handler -> Changes] /\ change'[h] = NoChange
        /\ \A g \in Handler \ {h} : change'[g] = change[g]
    BY <1>r, <1>t, <2>2, ChangeIs
  <2>4. listing.way = "ahead" => Ahead(c) /\ \A g \in Handler : change'[g].at = "idle"
    BY <1>i, <1>r, <2>1, <2>2, <2>3 DEF AheadListed, Apart
  <2>5. list' \in [Entry -> Shows] /\ unsaved' \subseteq Entry
    BY <1>f, <1>t, <2>1, <2>2, <2>4 DEF Ahead
  <2>6. behind' \in BOOLEAN /\ (~behind' => ~behind /\ c.at = "refused")
    BY <1>t, <2>2
  <2>7. ListTypeOK'
    BY <1>r, <1>t, <2>2, <2>3, <2>5, <2>6 DEF ListTypeOK, Loads, Changes
  <2>8. Apart'
    BY <1>i, <1>r, <2>2, <2>3 DEF Apart
  <2>9. InTime'
    <3>1. \A g \in Handler : change'[g].at = "done" => change'[g] = change[g]
      BY <1>r, <2>3
    <3>2. \A d \in Entry : \A g \in AnswersOf(d)' : g \in AnswersOf(d) /\ change'[g] = change[g]
      BY <1>r, <2>3 DEF AnswersOf
    <3> QED
      BY <1>i, <2>2, <3>1, <3>2 DEF InTime
  <2>10. CASE behind'
    BY <2>2, <2>4, <2>7, <2>8, <2>9, <2>10
       DEF ListInv, PatchListed, ReloadListed, AheadListed
  <2>11. CASE ~behind' /\ listing.way = "ahead"
    <3>1. \A e \in Entry \ c.dropped : c.before[e] = Line(table[e])
      BY <2>2, <2>4, <2>6, <2>11 DEF Ahead
    <3>2. AheadListed'
      BY <2>2, <2>4, <2>11, <3>1 DEF AheadListed
    <3>3. PatchListed' /\ ReloadListed'
      BY <2>2, <2>11 DEF PatchListed, ReloadListed
    <3> QED
      BY <2>7, <2>8, <2>9, <3>2, <3>3 DEF ListInv
  <2>12. CASE ~behind' /\ listing.way # "ahead"
    <3>1. c.at = "refused" /\ UNCHANGED <<listing, table, list, behind>>
      BY <1>t, <2>2, <2>6, <2>12
    <3>2. \A g \in Handler : /\ change'[g].at = "done" <=> change[g].at = "done"
                             /\ change[g].at = "done" => change'[g] = change[g]
      BY <1>r, <2>1, <2>3, <3>1
    <3>3. PatchListed'
      BY <1>s, <3>1, <3>2
    <3>4. ReloadListed' /\ AheadListed'
      BY <1>i, <2>2, <2>12, <3>1, <3>2 DEF ReloadListed, AheadListed
    <3> QED
      BY <2>7, <2>8, <2>9, <3>3, <3>4 DEF ListInv
  <2> QED
    BY <2>10, <2>11, <2>12
<1>13. ASSUME NEW e \in Entry, ElsewhereChanged(e) PROVE ListInv'
  <2>1. /\ table[e] \in Value /\ (calm => AtRest) /\ table' = [table EXCEPT ![e] = Other(@)]
        /\ behind' = TRUE /\ load' = ReadsOvertaken
        /\ change' = [g \in Handler |-> Overtaken(change[g], e)]
        /\ UNCHANGED <<listing, list, answer, unsaved, calm>>
    BY <1>13 DEF ElsewhereChanged, Undisturbed
  <2>2. table' \in [Entry -> Content] /\ \A x \in Entry \ {e} : table'[x] = table[x]
    BY <1>t, <2>1 DEF Other, Value, Content
  <2>3. \A g \in Handler :
          /\ Same(g) /\ change'[g] \in Changes
          /\ change'[g].late = (change[g].late \/ (change[g].at = "done" /\ change[g].entry = e))
    BY <1>f, <2>1, OvertakenIs DEF Same
  <2>4. change' \in [Handler -> Changes]
    BY <2>1, <2>3
  <2>5. /\ load' \in [Handler -> Loads]
        /\ \A l \in Handler : /\ load'[l].at = load[l].at /\ load'[l].rows = load[l].rows
                              /\ load'[l].late = (load[l].late \/ load[l].at = "read")
    BY <1>t, <2>1, ReadsAre
  <2>6. ListTypeOK'
    <3>1. \A g \in Handler : change'[g].at # "idle" => change'[g].op \in listing.ops
      BY <1>t, <2>3 DEF Same
    <3> QED
      BY <1>t, <2>1, <2>2, <2>4, <2>5, <3>1 DEF ListTypeOK, Loads, Changes
  <2>7. Apart'
    BY <1>i, <2>1, <2>3, <2>5 DEF Apart, Same
  <2>8. InTime'
    <3>1. \A x \in Entry : AnswersOf(x)' = AnswersOf(x)
      BY <2>3 DEF AnswersOf, Same
    <3>2. \A g \in Handler : ~change'[g].late => ~change[g].late
      BY <2>3
    <3>3. ASSUME NEW g \in Handler, change'[g].at = "done", ~change'[g].late, change'[g].kept
          PROVE  table'[change'[g].entry]
                    = IF change'[g].op = "remove" THEN "gone" ELSE change'[g].value
      <4>1. /\ change[g].at = "done" /\ ~change[g].late /\ change[g].kept
            /\ change[g].entry \in Entry \ {e}
            /\ change'[g].entry = change[g].entry /\ change'[g].op = change[g].op
            /\ change'[g].value = change[g].value
        BY <1>f, <2>3, <3>3 DEF Same
      <4> QED
        BY <1>i, <2>2, <4>1 DEF InTime
    <3>4. \A g \in Handler : load'[g].at = "read" =>
             load'[g].rows \in [Entry -> Content] /\ load'[g].late
      BY <1>i, <2>5 DEF InTime
    <3>5. \A x \in Entry : \A f, g \in AnswersOf(x)' : ~change'[f].late /\ ~change'[g].late => f = g
      <4>1. \A x \in Entry : \A g \in AnswersOf(x) : g \in Handler
        BY DEF AnswersOf
      <4> QED
        BY <1>i, <3>1, <3>2, <4>1 DEF InTime
    <3> QED
      BY <3>3, <3>4, <3>5 DEF InTime
  <2>9. PatchListed' /\ ReloadListed'
    BY <2>1 DEF PatchListed, ReloadListed
  <2>10. AheadListed'
    <3>1. listing.way = "ahead" => \A g \in Handler : change'[g].at = "idle"
      BY <1>i, <2>1, <2>3 DEF Apart, AtRest, Same
    <3> QED
      BY <2>1, <3>1 DEF AheadListed
  <2> QED
    BY <2>6, <2>7, <2>8, <2>9, <2>10 DEF ListInv
<1>14. CASE UNCHANGED <<listVars, calm>>
  BY <1>14 DEF listVars, ListInv, ListTypeOK, Apart, InTime, AnswersOf, PatchListed, Follows,
     ReloadListed, AheadListed, Ahead
<1>15. "a" \in Value /\ "b" \in Value
  BY DEF Value
<1>16. ASSUME NEW h \in Handler,
              \/ BranchSubmit(h) \/ BranchRemove(h) \/ AddDepartment(h) \/ RemoveDepartment(h)
              \/ SaveRole(h) \/ RemoveRole(h) \/ SavePolicy(h) \/ DeletePolicy(h)
              \/ AddHoliday(h) \/ DeleteHoliday(h) \/ Invite(h) \/ Decide(h)
       PROVE  ListInv'
  BY <1>6, <1>15, <1>16
     DEF BranchSubmit, BranchRemove, AddDepartment, RemoveDepartment, SaveRole, RemoveRole,
         SavePolicy, DeletePolicy, AddHoliday, DeleteHoliday, Invite, Decide
<1> QED
  BY <1>1, <1>2, <1>3, <1>4, <1>7, <1>8, <1>9, <1>10, <1>11, <1>12, <1>13, <1>14, <1>16 DEF
     ListNext

\* However lists are changed and asked for, ListInv holds (DashboardProvider,
\* HRDirectory, the settings' lists).
THEOREM ListInvariance == ListSpec => []ListInv
  BY ListInitially, ListStep, PTL DEF ListSpec

\* For any rows, and whatever loads and changes overlap: a page at rest lists each row once
\* and as the server has it, unless an answer it listed had been overtaken by a change, or
\* one of the other reasons that ListSound names has put it behind (DashboardProvider's
\* interval and its changes, the hooks of the other lists).
THEOREM ListsStaySound == ListSpec => []ListSound
  BY ListImplied, ListInvariance, PTL

-----------------------------------------------------------------------------
(*************************************************************************)
(* The payroll page.  Without overlap it asks for its run as long as it  *)
(* shows it as being calculated, what a poll has seen is still so, and a *)
(* run moves on only by what was pressed.                                *)
(*************************************************************************)

\* A question about the run.
Polls == [at : {"idle", "asked", "read"}, run : Run \cup {NoRun}, saw : RunStatus \cup {"none"}]

\* A button that was pressed.
Presses == [at : {"idle", "submit", "approve", "done", "refused", "approved"},
            run : Run \cup {NoRun}, saw : {"none", "code"}]

\* A code is sent with an approval only.
CodeSent ==
    /\ \A h \in Handler : press[h].saw = "code"
        => press[h].at \in {"approve", "approved", "refused"}
    /\ stage = "DISBURSING" => \E h \in Handler : press[h].saw = "code"
    /\ ticking => active \in Run

\* In a calm history: one question and one button at a time; the page asks for its run as
\* long as it shows it as being calculated, and nobody approves it meanwhile.
AskedInTurn ==
    /\ \A g, h \in Handler : press[g].at # "idle" /\ press[h].at # "idle" => g = h
    /\ \A g, h \in Handler : poll[g].at # "idle" /\ poll[h].at # "idle" => g = h
    /\ ticking <=> Calculating
    /\ active = NoRun <=> job.status = "IDLE"
    /\ active # NoRun => runStatus[active] # "none"
    /\ ticking => runStatus[active] # "OWNER_APPROVED"
    /\ \A h \in Handler : poll[h].at # "idle" => ticking /\ poll[h].run = active

\* What may have been seen of a run that is at some status.
SeenOf(status, saw) ==
    /\ saw # "OWNER_APPROVED"
    /\ saw = "none" => ~withSession
    /\ saw = "COMPLETED" => status = "COMPLETED"
    /\ saw = "FAILED" => status = "FAILED"

\* What is shown of the run is so, as far as it was asked for.
ShownRun ==
    /\ \A h \in Handler : poll[h].at = "read" => SeenOf(runStatus[active], poll[h].saw)
    /\ job.status = "COMPLETED" =>
        job.of = active /\ runStatus[active] \in {"COMPLETED", "OWNER_APPROVED"}
    /\ job.status # "OWNER_APPROVED"
    /\ withSession /\ job.status = "FAILED" => runStatus[active] = "FAILED"
    /\ withSession /\ active # NoRun /\ runStatus[active] = "OWNER_APPROVED"
        => job = [status |-> "COMPLETED", of |-> active]
    /\ stage = "PAID" => active # NoRun /\ runStatus[active] = "OWNER_APPROVED"

\* Buttons are pressed for what is shown.
PressedInTurn ==
    \A h \in Handler :
        /\ press[h].at \in {"submit", "done"} => stage # "PAID" /\ ~ticking
        /\ press[h].at = "done" =>
            /\ press[h].run # active
            /\ runStatus[press[h].run] \in {"PENDING", "PROCESSING", "COMPLETED", "FAILED"}
        /\ press[h].at \in {"approve", "approved"} => press[h].run = active /\ ~ticking
        /\ press[h].at = "approved" => runStatus[active] = "OWNER_APPROVED"

\* Without overlap.
ScreenCalmInv == calm => AskedInTurn /\ ShownRun /\ PressedInTurn

\* Types, codes, and what is so without overlap.
ScreenInv == ScreenTypeOK /\ CodeSent /\ ScreenCalmInv

\* It implies what the run checks.
LEMMA ScreenImplied == ScreenInv => ScreenSound
<1> SUFFICES ASSUME ScreenInv PROVE ScreenSound
  OBVIOUS
<1>1. NeverCoveredForGood
  BY DEF ScreenInv, CodeSent, ScreenCalmInv, AskedInTurn, NeverCoveredForGood
<1>2. ScreenTellsTruth
  BY DEF ScreenInv, ScreenCalmInv, ShownRun, ScreenTellsTruth
<1> QED
  BY <1>1, <1>2 DEF ScreenSound

\* Nothing changes what kind of history it is.
LEMMA ScreenCalm == ScreenNext => calm' = calm
  BY DEF ScreenNext, CalculationStep, RunCreated, ApprovalServed, Tick, StatusRead, StatusShown,
     PollBreaks, MakerSubmit, Submitted, SubmissionFails, CheckerTrigger, ModalCancelled,
     FinalizeDisburse, Disbursed, DisbursementFails, ResetPayroll, PeriodTurns, Reopened

\* Nothing asked and nothing pressed are such.
LEMMA IdleFits == Idle \in Polls /\ Idle \in Presses /\ Idle.at = "idle" /\ Idle.saw = "none"
  BY DEF Idle, Polls, Presses

\* ScreenInv holds of the page that opens.
LEMMA ScreenInitially == CalmInit /\ ScreenInit => ScreenInv
<1> SUFFICES ASSUME ScreenInit PROVE ScreenInv
  OBVIOUS
<1>1. /\ withSession \in BOOLEAN
      /\ runStatus = [r \in Run |-> "none"] /\ period \in Run
      /\ stage = "DRAFT" /\ active = NoRun
      /\ job = [status |-> "IDLE", of |-> NoRun]
      /\ ticking = FALSE /\ modal = FALSE
      /\ poll = [h \in Handler |-> Idle] /\ press = [h \in Handler |-> Idle]
  BY DEF ScreenInit
<1>2. /\ poll \in [Handler -> Polls] /\ press \in [Handler -> Presses]
      /\ \A h \in Handler : poll[h].at = "idle" /\ press[h].at = "idle" /\ press[h].saw = "none"
  BY <1>1, IdleFits
<1>3. job.status = "IDLE"
  BY <1>1
<1>4. ScreenTypeOK
  BY <1>1, <1>2 DEF ScreenTypeOK, Polls, Presses
<1>5. CodeSent
  BY <1>1, <1>2 DEF CodeSent
<1>6. AskedInTurn
  BY <1>1, <1>2, <1>3 DEF AskedInTurn, Calculating
<1>7. ShownRun /\ PressedInTurn
  BY <1>1, <1>2, <1>3 DEF ShownRun, PressedInTurn
<1> QED
  BY <1>4, <1>5, <1>6, <1>7 DEF ScreenInv, ScreenCalmInv

\* A question becomes another.
LEMMA PollIs ==
  ASSUME NEW h \in Handler, NEW p \in Polls,
         poll \in [Handler -> Polls], poll' = [poll EXCEPT ![h] = p]
  PROVE  /\ poll' \in [Handler -> Polls] /\ poll'[h] = p
         /\ \A g \in Handler \ {h} : poll'[g] = poll[g]
  OBVIOUS

\* A press becomes another.
LEMMA PressIs ==
  ASSUME NEW h \in Handler, NEW p \in Presses,
         press \in [Handler -> Presses], press' = [press EXCEPT ![h] = p]
  PROVE  /\ press' \in [Handler -> Presses] /\ press'[h] = p
         /\ \A g \in Handler \ {h} : press'[g] = press[g]
  OBVIOUS

\* A press goes on.
LEMMA PressAt ==
  ASSUME NEW h \in Handler, NEW v \in {"done", "refused", "approved"},
         press \in [Handler -> Presses], press' = [press EXCEPT ![h].at = v]
  PROVE  /\ press' \in [Handler -> Presses] /\ press'[h].at = v
         /\ press'[h].run = press[h].run /\ press'[h].saw = press[h].saw
         /\ \A g \in Handler \ {h} : press'[g] = press[g]
<1>1. press[h] \in Presses
  OBVIOUS
<1> DEFINE p == [press[h] EXCEPT !.at = v]
<1>2. p \in Presses /\ p.at = v /\ p.run = press[h].run /\ p.saw = press[h].saw
  BY <1>1 DEF Presses
<1>3. press' = [press EXCEPT ![h] = p]
  OBVIOUS
<1> HIDE DEF p
<1> QED
  BY <1>2, <1>3

\* ScreenInv is inductive.
LEMMA ScreenStep == ScreenInv /\ [ScreenNext]_<<calm, screenVars>> => ScreenInv'
<1> SUFFICES ASSUME ScreenInv, [ScreenNext]_<<calm, screenVars>> PROVE ScreenInv'
  OBVIOUS
<1>t. /\ withSession \in BOOLEAN /\ ticking \in BOOLEAN /\ modal \in BOOLEAN
      /\ runStatus \in [Run -> RunStatus \cup {"none"}]
      /\ period \in Run /\ active \in Run \cup {NoRun}
      /\ stage \in {"DRAFT", "SUBMITTED", "DISBURSING", "PAID"}
      /\ job \in [status : RunStatus \cup {"IDLE"}, of : Run \cup {NoRun}]
      /\ poll \in [Handler -> Polls] /\ press \in [Handler -> Presses]
      /\ \A h \in Handler : /\ poll[h].at # "idle" => poll[h].run \in Run
                            /\ press[h].at # "idle" => press[h].run \in Run
  BY DEF ScreenInv, ScreenTypeOK, Polls, Presses
<1>c. CodeSent /\ (calm => AskedInTurn /\ ShownRun /\ PressedInTurn)
  BY DEF ScreenInv, ScreenCalmInv
<1>i. Idle \in Polls /\ Idle \in Presses /\ Idle.at = "idle" /\ Idle.saw = "none"
  BY IdleFits
<1>n. NoRun \notin Run
  BY RunAssumption
<1>1. ASSUME NEW r \in Run, CalculationStep(r) PROVE ScreenInv'
  <2>1. /\ UNCHANGED <<withSession, period, stage, active, job, ticking, modal, poll, press,
                       calm>>
        /\ \/ runStatus[r] = "PENDING" /\ runStatus' = [runStatus EXCEPT ![r] = "PROCESSING"]
           \/ runStatus[r] = "PROCESSING" /\ runStatus' = [runStatus EXCEPT ![r] = "COMPLETED"]
           \/ runStatus[r] = "PROCESSING" /\ runStatus' = [runStatus EXCEPT ![r] = "FAILED"]
    BY <1>1 DEF CalculationStep
  <2>2. /\ \A q \in Run \ {r} : runStatus'[q] = runStatus[q]
        /\ runStatus[r] \in {"PENDING", "PROCESSING"}
        /\ runStatus'[r] \in {"PROCESSING", "COMPLETED", "FAILED"}
        /\ runStatus' \in [Run -> RunStatus \cup {"none"}]
    BY <1>t, <2>1 DEF RunStatus
  <2>3. ScreenTypeOK' /\ CodeSent'
    BY <1>c, <1>t, <2>1, <2>2 DEF ScreenTypeOK, CodeSent, Polls, Presses
  <2>4. ASSUME calm PROVE AskedInTurn' /\ ShownRun' /\ PressedInTurn'
    <3>1. active = NoRun \/ active \in Run
      BY <1>t
    <3>2. AskedInTurn'
      BY <1>c, <2>1, <2>2, <2>4, <3>1 DEF AskedInTurn, Calculating
    <3>3. \A h \in Handler : poll[h].at = "read" => active \in Run
      BY <1>c, <2>4 DEF AskedInTurn, CodeSent
    <3>4. \A h \in Handler : poll[h].at = "read" => SeenOf(runStatus'[active], poll[h].saw)
      BY <1>c, <2>2, <2>4, <3>3 DEF ShownRun, SeenOf
    <3>5. job.status \in {"COMPLETED", "FAILED"} => active \in Run
      BY <1>c, <1>t, <2>4 DEF AskedInTurn
    <3>6. ShownRun'
      <4>1. (\A h \in Handler : poll[h].at = "read" => SeenOf(runStatus[active], poll[h].saw))'
        BY <2>1, <3>4 DEF SeenOf
      <4> QED
        BY <1>c, <1>t, <2>1, <2>2, <2>4, <3>1, <3>5, <4>1 DEF ShownRun
    <3>7. PressedInTurn'
      <4>1. ASSUME NEW h \in Handler, press[h].at = "done"
            PROVE  runStatus'[press[h].run] \in {"PENDING", "PROCESSING", "COMPLETED", "FAILED"}
        <5>1. PICK q \in Run : q = press[h].run
          BY <1>t, <4>1
        <5> QED
          BY <1>c, <2>2, <2>4, <4>1, <5>1 DEF PressedInTurn
      <4>2. ASSUME NEW h \in Handler, press[h].at = "approved"
            PROVE  runStatus'[active] = "OWNER_APPROVED"
        <5>1. active \in Run /\ runStatus[active] = "OWNER_APPROVED"
          BY <1>c, <1>t, <2>4, <4>2 DEF PressedInTurn
        <5> QED
          BY <2>2, <5>1
      <4> QED
        BY <1>c, <2>1, <2>4, <4>1, <4>2 DEF PressedInTurn
    <3> QED
      BY <3>2, <3>6, <3>7
  <2> QED
    BY <2>1, <2>3, <2>4 DEF ScreenInv, ScreenCalmInv
<1>2. ASSUME NEW h \in Handler, RunCreated(h) PROVE ScreenInv'
  <2>0. press[h].at = "submit"
    BY <1>2 DEF RunCreated
  <2>1. PICK r \in Run : r = press[h].run /\ press[h].at = "submit"
    BY <1>t, <2>0
  <2>2. PICK v \in {"done", "refused"} :
          /\ press' = [press EXCEPT ![h].at = v]
          /\ v = "done" => runStatus[r] = "none"
              /\ runStatus' = [runStatus EXCEPT ![r] = "PENDING"]
          /\ v = "refused" => runStatus' = runStatus
          /\ UNCHANGED <<withSession, period, stage, active, job, ticking, modal, poll, calm>>
    BY <1>2, <2>1 DEF RunCreated
  <2>3. /\ press' \in [Handler -> Presses] /\ press'[h].at = v
        /\ press'[h].run = r /\ press'[h].saw = press[h].saw
        /\ \A g \in Handler \ {h} : press'[g] = press[g]
    BY <1>t, <2>1, <2>2, PressAt
  <2>4. /\ \A q \in Run \ {r} : runStatus'[q] = runStatus[q]
        /\ runStatus'[r] = runStatus[r] \/ (runStatus[r] = "none" /\ runStatus'[r] = "PENDING")
        /\ v = "done" => runStatus'[r] = "PENDING"
        /\ runStatus' \in [Run -> RunStatus \cup {"none"}]
    BY <1>t, <2>2 DEF RunStatus
  <2>5. ScreenTypeOK'
    BY <1>t, <2>2, <2>3, <2>4 DEF ScreenTypeOK, Polls, Presses
  <2>6. CodeSent'
    BY <1>c, <2>1, <2>2, <2>3 DEF CodeSent
  <2>7. ASSUME calm PROVE AskedInTurn' /\ ShownRun' /\ PressedInTurn'
    <3>1. v = "done" => r # active
      BY <1>c, <1>n, <2>1, <2>2, <2>7 DEF AskedInTurn
    <3>2. active \in Run => runStatus'[active] = runStatus[active]
      BY <2>2, <2>4, <3>1
    <3>3. active = NoRun \/ active \in Run
      BY <1>t
    <3>4. AskedInTurn'
      <4>1. \A g \in Handler : press'[g].at # "idle" => press[g].at # "idle"
        BY <2>1, <2>3
      <4> QED
        BY <1>c, <1>n, <2>2, <2>7, <3>2, <3>3, <4>1 DEF AskedInTurn, Calculating
    <3>5. \A g \in Handler : poll[g].at = "read" => active \in Run
      BY <1>c, <2>7 DEF AskedInTurn, CodeSent
    <3>6. job.status \in {"COMPLETED", "FAILED"} => active \in Run
      BY <1>c, <1>t, <2>7 DEF AskedInTurn
    <3>7. ShownRun'
      <4>1. (\A g \in Handler : poll[g].at = "read" => SeenOf(runStatus[active], poll[g].saw))'
        BY <1>c, <2>2, <2>7, <3>2, <3>5 DEF ShownRun, SeenOf
      <4> QED
        BY <1>c, <1>t, <2>2, <2>7, <3>2, <3>3, <3>6, <4>1 DEF ShownRun
    <3>8. PressedInTurn'
      <4>1. \A g \in Handler \ {h} : press'[g].at = "idle"
        BY <1>c, <2>1, <2>3, <2>7 DEF AskedInTurn
      <4> QED
        BY <1>c, <2>1, <2>2, <2>3, <2>4, <2>7, <3>1, <4>1 DEF PressedInTurn
    <3> QED
      BY <3>4, <3>7, <3>8
  <2> QED
    BY <2>2, <2>5, <2>6, <2>7 DEF ScreenInv, ScreenCalmInv
<1>3. ASSUME NEW h \in Handler, NEW right \in BOOLEAN, ApprovalServed(h, right) PROVE ScreenInv'
  <2>0. press[h].at = "approve"
    BY <1>3 DEF ApprovalServed
  <2>1. PICK r \in Run : r = press[h].run /\ press[h].at = "approve"
    BY <1>t, <2>0
  <2>2. PICK v \in {"approved", "refused"} :
          /\ press' = [press EXCEPT ![h].at = v]
          /\ v = "approved" =>
                runStatus[r] = "COMPLETED"
                    /\ runStatus' = [runStatus EXCEPT ![r] = "OWNER_APPROVED"]
          /\ v = "refused" => runStatus' = runStatus
          /\ UNCHANGED <<withSession, period, stage, active, job, ticking, modal, poll, calm>>
    BY <1>3, <2>1 DEF ApprovalServed
  <2>3. /\ press' \in [Handler -> Presses] /\ press'[h].at = v
        /\ press'[h].run = r /\ press'[h].saw = press[h].saw
        /\ \A g \in Handler \ {h} : press'[g] = press[g]
    BY <1>t, <2>1, <2>2, PressAt
  <2>4. /\ \A q \in Run \ {r} : runStatus'[q] = runStatus[q]
        /\ runStatus'[r] = runStatus[r]
              \/ (runStatus[r] = "COMPLETED" /\ runStatus'[r] = "OWNER_APPROVED")
        /\ v = "approved" => runStatus'[r] = "OWNER_APPROVED"
        /\ runStatus' \in [Run -> RunStatus \cup {"none"}]
    BY <1>t, <2>2 DEF RunStatus
  <2>5. ScreenTypeOK'
    BY <1>t, <2>2, <2>3, <2>4 DEF ScreenTypeOK, Polls, Presses
  <2>6. CodeSent'
    BY <1>c, <2>1, <2>2, <2>3 DEF CodeSent
  <2>7. ASSUME calm PROVE AskedInTurn' /\ ShownRun' /\ PressedInTurn'
    <3>1. r = active /\ ~ticking /\ \A g \in Handler \ {h} : press[g].at = "idle"
      BY <1>c, <2>1, <2>7 DEF PressedInTurn, AskedInTurn
    <3>2. \A g \in Handler : poll[g].at = "idle"
      BY <1>c, <2>7, <3>1 DEF AskedInTurn
    <3>3. AskedInTurn'
      BY <1>c, <1>n, <2>2, <2>3, <2>4, <2>7, <3>1, <3>2 DEF AskedInTurn, Calculating
    <3>4. withSession /\ runStatus[active] = "COMPLETED" =>
            job = [status |-> "COMPLETED", of |-> active]
      <4>1. ASSUME withSession, runStatus[active] = "COMPLETED" PROVE job.status = "COMPLETED"
        BY <1>c, <1>n, <1>t, <2>1, <2>7, <3>1, <4>1
           DEF AskedInTurn, ShownRun, Calculating, RunStatus
      <4> QED
        BY <1>c, <1>t, <2>7, <4>1 DEF ShownRun
    <3>5. ShownRun'
      BY <1>c, <2>2, <2>4, <2>7, <3>1, <3>2, <3>4 DEF ShownRun
    <3>6. PressedInTurn'
      BY <2>1, <2>2, <2>3, <2>4, <3>1 DEF PressedInTurn
    <3> QED
      BY <3>3, <3>5, <3>6
  <2> QED
    BY <2>2, <2>5, <2>6, <2>7 DEF ScreenInv, ScreenCalmInv
<1>4. ASSUME NEW h \in Handler, Tick(h) PROVE ScreenInv'
  <2> DEFINE p == [Idle EXCEPT !.at = "asked", !.run = active]
  <2>1. /\ ticking /\ poll[h].at = "idle" /\ (calm => \A g \in Handler : poll[g].at = "idle")
        /\ poll' = [poll EXCEPT ![h] = p]
        /\ UNCHANGED <<withSession, runStatus, period, stage, active, job, ticking, modal, press,
                       calm>>
    BY <1>4 DEF Tick, MayTake, Polling
  <2>2. active \in Run
    BY <1>c, <2>1 DEF CodeSent
  <2>3. p \in Polls /\ p.at = "asked" /\ p.run = active
    BY <1>t DEF Idle, Polls
  <2> HIDE DEF p
  <2>4. /\ poll' \in [Handler -> Polls] /\ poll'[h] = p
        /\ \A g \in Handler \ {h} : poll'[g] = poll[g]
    BY <1>t, <2>1, <2>3, PollIs
  <2>5. ScreenTypeOK'
    BY <1>t, <2>1, <2>2, <2>3, <2>4 DEF ScreenTypeOK, Polls, Presses
  <2>6. CodeSent'
    BY <1>c, <2>1 DEF CodeSent
  <2>7. ASSUME calm PROVE AskedInTurn' /\ ShownRun' /\ PressedInTurn'
    <3>1. AskedInTurn'
      BY <1>c, <2>1, <2>3, <2>4, <2>7 DEF AskedInTurn, Calculating
    <3>2. \A g \in Handler : poll'[g].at # "read"
      BY <2>1, <2>3, <2>4, <2>7
    <3>3. ShownRun' /\ PressedInTurn'
      BY <1>c, <2>1, <2>7, <3>2 DEF ShownRun, PressedInTurn
    <3> QED
      BY <3>1, <3>3
  <2> QED
    BY <2>1, <2>5, <2>6, <2>7 DEF ScreenInv, ScreenCalmInv
<1>5. ASSUME NEW h \in Handler, StatusRead(h) PROVE ScreenInv'
  <2>0. poll[h].at = "asked"
    BY <1>5 DEF StatusRead
  <2>1. PICK r \in Run : r = poll[h].run /\ poll[h].at = "asked"
    BY <1>t, <2>0
  <2>2. PICK s \in RunStatus \cup {"none"} : s = IF withSession THEN runStatus[r] ELSE "none"
    BY <1>t
  <2> DEFINE p == [poll[h] EXCEPT !.at = "read", !.saw = s]
  <2>3. /\ poll' = [poll EXCEPT ![h].at = "read", ![h].saw = s]
        /\ UNCHANGED <<withSession, runStatus, period, stage, active, job, ticking, modal, press,
                       calm>>
    BY <1>5, <2>1, <2>2 DEF StatusRead
  <2>4. p \in Polls /\ p.at = "read" /\ p.run = r /\ p.saw = s
    <3>1. poll[h] \in Polls
      BY <1>t
    <3> QED
      BY <2>1, <3>1 DEF Polls
  <2>5. poll' = [poll EXCEPT ![h] = p]
    BY <1>t, <2>3
  <2> HIDE DEF p
  <2>6. /\ poll' \in [Handler -> Polls] /\ poll'[h] = p
        /\ \A g \in Handler \ {h} : poll'[g] = poll[g]
    BY <1>t, <2>4, <2>5, PollIs
  <2>7. ScreenTypeOK'
    BY <1>t, <2>1, <2>3, <2>4, <2>6 DEF ScreenTypeOK, Polls, Presses
  <2>8. CodeSent'
    BY <1>c, <2>3 DEF CodeSent
  <2>9. ASSUME calm PROVE AskedInTurn' /\ ShownRun' /\ PressedInTurn'
    <3>1. ticking /\ r = active /\ \A g \in Handler \ {h} : poll[g].at = "idle"
      BY <1>c, <2>1, <2>9 DEF AskedInTurn
    <3>2. AskedInTurn'
      BY <1>c, <2>3, <2>4, <2>6, <2>9, <3>1 DEF AskedInTurn, Calculating
    <3>3. runStatus[active] \notin {"none", "OWNER_APPROVED"}
      BY <1>c, <1>n, <2>9, <3>1 DEF AskedInTurn
    <3>4. SeenOf(runStatus[active], s)
      BY <2>2, <3>1, <3>3 DEF SeenOf
    <3>5. (\A g \in Handler : poll[g].at = "read" => SeenOf(runStatus[active], poll[g].saw))'
      BY <2>3, <2>4, <2>6, <3>1, <3>4 DEF SeenOf
    <3>6. ShownRun' /\ PressedInTurn'
      BY <1>c, <2>3, <2>9, <3>5 DEF ShownRun, PressedInTurn
    <3> QED
      BY <3>2, <3>6
  <2> QED
    BY <2>3, <2>7, <2>8, <2>9 DEF ScreenInv, ScreenCalmInv
<1>6. ASSUME NEW h \in Handler, StatusShown(h) PROVE ScreenInv'
  <2>0. poll[h].at = "read"
    BY <1>6 DEF StatusShown
  <2>1. PICK p \in Polls : p = poll[h] /\ p.at = "read" /\ p.run \in Run
    BY <1>t, <2>0
  <2>2. /\ p.saw \in {"COMPLETED", "FAILED", "none"} => ticking' = (ticking /\ p.run # active)
        /\ p.saw \notin {"COMPLETED", "FAILED", "none"} => ticking' = ticking
        /\ p.saw = "none" => job' = [job EXCEPT !.status = "FAILED"]
        /\ p.saw # "none" => job' = [status |-> p.saw, of |-> p.run]
        /\ stage' = IF p.saw = "COMPLETED" THEN "SUBMITTED" ELSE stage
        /\ poll' = [poll EXCEPT ![h] = Idle]
        /\ UNCHANGED <<withSession, runStatus, period, active, modal, press, calm>>
    BY <1>6, <2>1 DEF StatusShown, StillTicking
  <2>3. /\ poll' \in [Handler -> Polls] /\ poll'[h] = Idle
        /\ \A g \in Handler \ {h} : poll'[g] = poll[g]
    BY <1>i, <1>t, <2>2, PollIs
  <2>4. p.saw \in RunStatus \cup {"none"}
    BY <2>1 DEF Polls
  <2>5. /\ job' \in [status : RunStatus \cup {"IDLE"}, of : Run \cup {NoRun}]
        /\ job'.status = IF p.saw = "none" THEN "FAILED" ELSE p.saw
        /\ p.saw # "none" => job'.of = p.run
    BY <1>t, <2>1, <2>2, <2>4 DEF RunStatus
  <2>6. ticking' \in BOOLEAN /\ (ticking' => ticking)
    <3>1. CASE p.saw \in {"COMPLETED", "FAILED", "none"}
      BY <2>2, <3>1
    <3>2. CASE p.saw \notin {"COMPLETED", "FAILED", "none"}
      BY <1>t, <2>2, <3>2
    <3> QED
      BY <3>1, <3>2
  <2>70. /\ stage' \in {"DRAFT", "SUBMITTED", "DISBURSING", "PAID"}
         /\ UNCHANGED <<withSession, runStatus, period, active, modal, press, calm>>
    BY <1>t, <2>2
  <2>7. ScreenTypeOK'
    BY <1>i, <1>t, <2>3, <2>5, <2>6, <2>70 DEF ScreenTypeOK, Polls, Presses
  <2>8. CodeSent'
    BY <1>c, <2>2, <2>6 DEF CodeSent
  <2>9. ASSUME calm PROVE AskedInTurn' /\ ShownRun' /\ PressedInTurn'
    <3>1. /\ ticking /\ p.run = active /\ \A g \in Handler \ {h} : poll[g].at = "idle"
          /\ active # NoRun
      BY <1>c, <1>n, <2>1, <2>9 DEF AskedInTurn
    <3>2. SeenOf(runStatus[active], p.saw)
      BY <1>c, <2>1, <2>9 DEF ShownRun
    <3>3. \A g \in Handler : poll'[g].at = "idle"
      BY <1>i, <2>3, <3>1
    <3>4. ticking' <=> p.saw \in {"PENDING", "PROCESSING"}
      BY <1>t, <2>2, <2>4, <3>1, <3>2 DEF SeenOf, RunStatus
    <3>5. Calculating' <=> p.saw \in {"PENDING", "PROCESSING"}
      BY <2>5 DEF Calculating
    <3>6. AskedInTurn'
      <4>1. job'.status # "IDLE"
        BY <2>4, <2>5 DEF RunStatus
      <4>2. ticking' <=> Calculating'
        BY <3>4, <3>5
      <4> QED
        BY <1>c, <2>2, <2>6, <2>9, <3>1, <3>3, <4>1, <4>2 DEF AskedInTurn
    <3>7. runStatus[active] # "OWNER_APPROVED"
      BY <1>c, <2>9, <3>1 DEF AskedInTurn
    <3>8. stage' = "PAID" => stage = "PAID"
      BY <2>2
    <3>9. ShownRun'
      BY <1>c, <2>2, <2>5, <2>9, <3>1, <3>2, <3>3, <3>7, <3>8 DEF ShownRun, SeenOf
    <3>10. PressedInTurn'
      BY <1>c, <2>2, <2>6, <2>9, <3>8 DEF PressedInTurn
    <3> QED
      BY <3>6, <3>9, <3>10
  <2> QED
    BY <2>2, <2>7, <2>8, <2>9 DEF ScreenInv, ScreenCalmInv
<1>7. ASSUME NEW h \in Handler, PollBreaks(h) PROVE ScreenInv'
  <2>1. /\ ~calm /\ job' = [job EXCEPT !.status = "FAILED"]
        /\ ticking' = (ticking /\ poll[h].run # active)
        /\ poll' = [poll EXCEPT ![h] = Idle]
        /\ UNCHANGED <<withSession, runStatus, period, stage, active, modal, press, calm>>
    BY <1>7 DEF PollBreaks, MayBreak, StillTicking
  <2>2. /\ poll' \in [Handler -> Polls] /\ poll'[h] = Idle
        /\ \A g \in Handler \ {h} : poll'[g] = poll[g]
    BY <1>i, <1>t, <2>1, PollIs
  <2>3. job' \in [status : RunStatus \cup {"IDLE"}, of : Run \cup {NoRun}]
    BY <1>t, <2>1 DEF RunStatus
  <2>4. ticking' \in BOOLEAN /\ (ticking' => ticking)
    BY <1>t, <2>1
  <2>50. UNCHANGED <<withSession, runStatus, period, stage, active, modal, press, calm>>
    BY <2>1
  <2>5. ScreenTypeOK'
    BY <1>i, <1>t, <2>2, <2>3, <2>4, <2>50 DEF ScreenTypeOK, Polls, Presses
  <2>6. CodeSent'
    BY <1>c, <2>1, <2>4 DEF CodeSent
  <2> QED
    BY <2>1, <2>5, <2>6 DEF ScreenInv, ScreenCalmInv
<1>8. ASSUME NEW h \in Handler, MakerSubmit(h) PROVE ScreenInv'
  <2> DEFINE p == [Idle EXCEPT !.at = "submit", !.run = period]
  <2>1. /\ stage = "DRAFT" /\ ~Calculating
        /\ press[h].at = "idle" /\ (calm => \A g \in Handler : press[g].at = "idle")
        /\ press' = [press EXCEPT ![h] = p]
        /\ UNCHANGED <<withSession, runStatus, period, stage, active, job, ticking, modal, poll,
                       calm>>
    BY <1>8 DEF MakerSubmit, MayTake, Pressing, Uncovered
  <2>2. p \in Presses /\ p.at = "submit" /\ p.run = period /\ p.saw = "none"
    BY <1>t DEF Idle, Presses
  <2> HIDE DEF p
  <2>3. /\ press' \in [Handler -> Presses] /\ press'[h] = p
        /\ \A g \in Handler \ {h} : press'[g] = press[g]
    BY <1>t, <2>1, <2>2, PressIs
  <2>4. ScreenTypeOK'
    BY <1>t, <2>1, <2>2, <2>3 DEF ScreenTypeOK, Polls, Presses
  <2>5. CodeSent'
    BY <1>c, <2>1, <2>2, <2>3 DEF CodeSent
  <2>6. ASSUME calm PROVE AskedInTurn' /\ ShownRun' /\ PressedInTurn'
    <3>1. AskedInTurn'
      BY <1>c, <2>1, <2>3, <2>6 DEF AskedInTurn, Calculating
    <3>2. ShownRun'
      BY <1>c, <2>1, <2>6 DEF ShownRun, SeenOf
    <3>3. ~ticking
      BY <1>c, <2>1, <2>6 DEF AskedInTurn
    <3>4. PressedInTurn'
      BY <2>1, <2>2, <2>3, <2>6, <3>3 DEF PressedInTurn
    <3> QED
      BY <3>1, <3>2, <3>4
  <2> QED
    BY <2>1, <2>4, <2>5, <2>6 DEF ScreenInv, ScreenCalmInv
<1>9. ASSUME NEW h \in Handler, NEW first \in Handler, Submitted(h, first) PROVE ScreenInv'
  <2>0. press[h].at = "done"
    BY <1>9 DEF Submitted
  <2>1. PICK r \in Run : r = press[h].run /\ press[h].at = "done"
    BY <1>t, <2>0
  <2> DEFINE p == [Idle EXCEPT !.at = "asked", !.run = r]
  <2>2. /\ active' = r /\ press' = [press EXCEPT ![h] = Idle]
        /\ r = active => UNCHANGED <<job, ticking, poll>>
        /\ r # active => /\ job' = [status |-> "PENDING", of |-> NoRun]
                         /\ ticking' = TRUE
                         /\ poll[first].at = "idle"
                         /\ poll' = [poll EXCEPT ![first] = p]
        /\ UNCHANGED <<withSession, runStatus, period, stage, modal, calm>>
    BY <1>9, <2>1 DEF Submitted
  <2>3. p \in Polls /\ p.at = "asked" /\ p.run = r
    BY DEF Idle, Polls
  <2> HIDE DEF p
  <2>4. /\ press' \in [Handler -> Presses] /\ press'[h] = Idle
        /\ \A g \in Handler \ {h} : press'[g] = press[g]
    BY <1>i, <1>t, <2>2, PressIs
  <2>5. /\ poll' \in [Handler -> Polls]
        /\ r # active => poll'[first] = p /\ \A g \in Handler \ {first} : poll'[g] = poll[g]
    <3>1. CASE r = active
      BY <1>t, <2>2, <3>1
    <3>2. CASE r # active
      BY <1>t, <2>2, <2>3, <3>2, PollIs
    <3> QED
      BY <3>1, <3>2
  <2>6. job' \in [status : RunStatus \cup {"IDLE"}, of : Run \cup {NoRun}] /\ ticking' \in BOOLEAN
    <3>1. CASE r = active
      BY <1>t, <2>2, <3>1
    <3>2. CASE r # active
      BY <2>2, <3>2 DEF RunStatus
    <3> QED
      BY <3>1, <3>2
  <2>7. ScreenTypeOK'
    <3>1. \A g \in Handler : poll'[g].at # "idle" => poll'[g].run \in Run
      <4>1. CASE r = active
        BY <1>t, <2>2, <4>1
      <4>2. CASE r # active
        BY <1>t, <2>3, <2>5, <4>2
      <4> QED
        BY <4>1, <4>2
    <3>2. active' = r /\ UNCHANGED <<withSession, runStatus, period, stage, modal, calm>>
      BY <2>2
    <3> QED
      BY <1>i, <1>t, <2>4, <2>5, <2>6, <3>1, <3>2 DEF ScreenTypeOK, Polls, Presses
  <2>8. CodeSent'
    <3>1. \A g \in Handler : press'[g].saw = "code" <=> press[g].saw = "code"
      BY <1>c, <1>i, <2>1, <2>4 DEF CodeSent
    <3> QED
      BY <1>c, <1>i, <2>2, <2>4, <3>1 DEF CodeSent
  <2>9. ASSUME calm PROVE AskedInTurn' /\ ShownRun' /\ PressedInTurn'
    <3>1. /\ r # active /\ ~ticking /\ stage # "PAID"
          /\ runStatus[r] \in {"PENDING", "PROCESSING", "COMPLETED", "FAILED"}
      BY <1>c, <2>1, <2>9 DEF PressedInTurn
    <3>2. \A g \in Handler : poll[g].at = "idle"
      BY <1>c, <2>9, <3>1 DEF AskedInTurn
    <3>3. job'.status = "PENDING" /\ ticking' = TRUE
      BY <2>2, <3>1
    <3>4. \A g \in Handler : press'[g].at = "idle"
      BY <1>c, <1>i, <2>1, <2>4, <2>9 DEF AskedInTurn
    <3>5. AskedInTurn'
      BY <1>n, <2>2, <2>3, <2>5, <3>1, <3>2, <3>3, <3>4 DEF AskedInTurn, Calculating
    <3>6. ShownRun'
      BY <2>2, <2>3, <2>5, <3>1, <3>2, <3>3 DEF ShownRun
    <3>7. PressedInTurn'
      BY <3>4 DEF PressedInTurn
    <3> QED
      BY <3>5, <3>6, <3>7
  <2> QED
    BY <2>2, <2>7, <2>8, <2>9 DEF ScreenInv, ScreenCalmInv
<1>10. ASSUME NEW h \in Handler, NEW s \in {"SUBMITTED", "PAID"},
              press' = [press EXCEPT ![h] = Idle], stage' = s,
              calm /\ s = "PAID" => active # NoRun /\ runStatus[active] = "OWNER_APPROVED",
              calm /\ s = "PAID" => press[h].at # "idle",
              UNCHANGED <<withSession, runStatus, period, active, job, ticking, modal, poll,
              calm>>
       PROVE  ScreenInv'
  <2>1. /\ press' \in [Handler -> Presses] /\ press'[h] = Idle
        /\ \A g \in Handler \ {h} : press'[g] = press[g]
    BY <1>10, <1>i, <1>t, PressIs
  <2>2. ScreenTypeOK'
    BY <1>10, <1>i, <1>t, <2>1 DEF ScreenTypeOK, Polls, Presses
  <2>3. CodeSent'
    BY <1>10, <1>c, <1>i, <2>1 DEF CodeSent
  <2>4. ASSUME calm PROVE AskedInTurn' /\ ShownRun' /\ PressedInTurn'
    <3>1. \A g \in Handler : press'[g].at # "idle" => press'[g] = press[g] /\ s # "PAID"
      BY <1>10, <1>c, <1>i, <2>1, <2>4 DEF AskedInTurn
    <3>2. AskedInTurn'
      BY <1>10, <1>c, <2>4, <3>1 DEF AskedInTurn, Calculating
    <3>3. ShownRun'
      BY <1>10, <1>c, <2>4 DEF ShownRun, SeenOf
    <3>4. PressedInTurn'
      BY <1>10, <1>c, <2>4, <3>1 DEF PressedInTurn
    <3> QED
      BY <3>2, <3>3, <3>4
  <2> QED
    BY <1>10, <2>2, <2>3, <2>4 DEF ScreenInv, ScreenCalmInv
<1>11. ASSUME NEW h \in Handler, SubmissionFails(h) \/ DisbursementFails(h) PROVE ScreenInv'
  BY <1>10, <1>11 DEF SubmissionFails, DisbursementFails
<1>12. ASSUME NEW h \in Handler, Disbursed(h) PROVE ScreenInv'
  <2>0. press[h].at = "approved"
    BY <1>12 DEF Disbursed
  <2>1. calm => active # NoRun /\ runStatus[active] = "OWNER_APPROVED" /\ press[h].at # "idle"
    BY <1>c, <1>n, <1>t, <2>0 DEF PressedInTurn
  <2> QED
    BY <1>10, <1>12, <2>1 DEF Disbursed
<1>13. ASSUME NEW h \in Handler, FinalizeDisburse(h) PROVE ScreenInv'
  <2> DEFINE p == [at |-> "approve", run |-> active, saw |-> "code"]
  <2>1. /\ ~Calculating /\ active # NoRun
        /\ press[h].at = "idle" /\ (calm => \A g \in Handler : press[g].at = "idle")
        /\ modal' = FALSE /\ stage' = "DISBURSING" /\ press' = [press EXCEPT ![h] = p]
        /\ UNCHANGED <<withSession, runStatus, period, active, job, ticking, poll, calm>>
    BY <1>13 DEF FinalizeDisburse, MayTake, Pressing
  <2>2. p \in Presses /\ p.at = "approve" /\ p.run = active /\ p.saw = "code" /\ active \in Run
    BY <1>t, <2>1 DEF Presses
  <2> HIDE DEF p
  <2>3. /\ press' \in [Handler -> Presses] /\ press'[h] = p
        /\ \A g \in Handler \ {h} : press'[g] = press[g]
    BY <1>t, <2>1, <2>2, PressIs
  <2>4. ScreenTypeOK'
    BY <1>t, <2>1, <2>2, <2>3 DEF ScreenTypeOK, Polls, Presses
  <2>5. CodeSent'
    BY <1>c, <2>1, <2>2, <2>3 DEF CodeSent
  <2>6. ASSUME calm PROVE AskedInTurn' /\ ShownRun' /\ PressedInTurn'
    <3>1. AskedInTurn'
      BY <1>c, <2>1, <2>3, <2>6 DEF AskedInTurn, Calculating
    <3>2. ShownRun'
      BY <1>c, <2>1, <2>6 DEF ShownRun, SeenOf
    <3>3. ~ticking
      BY <1>c, <2>1, <2>6 DEF AskedInTurn
    <3>4. PressedInTurn'
      BY <2>1, <2>2, <2>3, <2>6, <3>3 DEF PressedInTurn
    <3> QED
      BY <3>1, <3>2, <3>4
  <2> QED
    BY <2>1, <2>4, <2>5, <2>6 DEF ScreenInv, ScreenCalmInv
<1>14. ASSUME stage' = stage \/ (stage' = "DRAFT" /\ stage = "PAID"), modal' \in BOOLEAN,
              period' \in Run,
              UNCHANGED <<withSession, runStatus, active, job, ticking, poll, press, calm>>
       PROVE  ScreenInv'
  <2>1. ScreenTypeOK'
    BY <1>14, <1>t DEF ScreenTypeOK, Polls, Presses
  <2>2. CodeSent'
    BY <1>14, <1>c DEF CodeSent
  <2>3. ASSUME calm PROVE AskedInTurn' /\ ShownRun' /\ PressedInTurn'
    BY <1>14, <1>c, <2>3 DEF AskedInTurn, ShownRun, PressedInTurn, Calculating, SeenOf
  <2> QED
    BY <1>14, <2>1, <2>2, <2>3 DEF ScreenInv, ScreenCalmInv
<1>15. CASE CheckerTrigger \/ ModalCancelled \/ ResetPayroll \/ PeriodTurns
  BY <1>14, <1>15, <1>t DEF CheckerTrigger, ModalCancelled, ResetPayroll, PeriodTurns
<1>16. CASE Reopened
  <2>1. /\ stage' = "DRAFT" /\ active' = NoRun
        /\ job' = [status |-> "IDLE", of |-> NoRun]
        /\ ticking' = FALSE /\ modal' = FALSE
        /\ poll' = [h \in Handler |-> Idle]
        /\ \A h \in Handler : press[h].at = "idle"
        /\ UNCHANGED <<withSession, runStatus, period, press, calm>>
    BY <1>16 DEF Reopened
  <2>2. poll' \in [Handler -> Polls] /\ \A h \in Handler : poll'[h].at = "idle"
    BY <1>i, <2>1
  <2>3. job'.status = "IDLE"
    BY <2>1
  <2>4. ScreenTypeOK'
    BY <1>t, <2>1, <2>2 DEF ScreenTypeOK, Polls, Presses
  <2>5. CodeSent'
    BY <1>c, <2>1 DEF CodeSent
  <2>6. AskedInTurn' /\ ShownRun' /\ PressedInTurn'
    BY <2>1, <2>2, <2>3 DEF AskedInTurn, ShownRun, PressedInTurn, Calculating
  <2> QED
    BY <2>4, <2>5, <2>6 DEF ScreenInv, ScreenCalmInv
<1>17. CASE UNCHANGED <<calm, screenVars>>
  BY <1>17, <1>14, <1>t DEF screenVars
<1> QED
  BY <1>1, <1>2, <1>3, <1>4, <1>5, <1>6, <1>7, <1>8, <1>9, <1>11, <1>12, <1>13, <1>15, <1>16,
     <1>17
     DEF ScreenNext

\* However the page asks, sleeps and is pressed, ScreenInv holds (PayrollEngine,
\* PayrollPage).
THEOREM ScreenInvariance == ScreenSpec => []ScreenInv
  BY ScreenInitially, ScreenStep, PTL DEF ScreenSpec

\* For any runs and requests, where answers come in order: nothing covers the payroll
\* page for good, and what it says of a run is so (usePayroll).
THEOREM ScreenStaysSound == ScreenSpec => []ScreenSound
  BY ScreenImplied, ScreenInvariance, PTL

-----------------------------------------------------------------------------
(*************************************************************************)
(* The forms of the notification settings.  What a save says is what its *)
(* form says, and a form that was not touched shows what the server has. *)
(*************************************************************************)

\* What a save under way says is what its form says, and after it was stored also what the
\* server has; no other form was changed meanwhile, unless that is known.
Carries(h) ==
    /\ alertsSaving = h
    /\ patch[h].says = alertForms[patch[h].tab]
    /\ patch[h].at = "written" => alertRows[patch[h].tab] = patch[h].says
    /\ ~crossed => touched \subseteq {patch[h].tab}

\* One save at a time, and it says what its form says.
SavesInLine ==
    /\ \A g, h \in Handler : patch[g].at # "idle" /\ patch[h].at # "idle" => g = h
    /\ \A h \in Handler : patch[h].at # "ended" /\ (patch[h].at # "idle" => Carries(h))

\* Before the forms are open nothing was changed,
NothingUnsavedBefore ==
    /\ alertPage # "open" => /\ touched = {} /\ ~alertsDirty /\ ~crossed
                             /\ \A h \in Handler : patch[h].at = "idle"
    /\ alertPage = "read" => brought = alertRows

\* and once they are, those that were not touched show what the server has.
FormsFollowRows ==
    /\ alertPage = "open" /\ loadedWell =>
        \A t \in Tab \ touched : alertForms[t] = AsShown(alertRows[t])
    /\ ~crossed => (alertsDirty <=> touched # {})

\* Without overlap.
AlertsCalmInv == calm => SavesInLine /\ NothingUnsavedBefore /\ FormsFollowRows

\* Types, and what is so without overlap.
AlertsInv == AlertsTypeOK /\ AlertsCalmInv

\* A save of a tab.
Patches == [at : {"idle", "sent", "written", "refused", "ended"}, tab : Tab, says : Saying]

\* AlertsInv implies what the run checks.
LEMMA AlertsImplied == AlertsInv => AlertsSound
  BY DEF AlertsInv, AlertsSound, AlertsCalmInv, FormsFollowRows

\* No save changes what kind of history it is.
LEMMA AlertsCalm == AlertsNext => calm' = calm
  BY DEF AlertsNext, OpenAlerts, GetNotificationSettings, AlertsLoaded, LeaveAlerts, SelectTab,
     EditCompanyAlerts, EditMyAlerts, EditAlerts, SaveAlerts, StoreAlerts, RefuseAlerts,
     AlertsSaved, AlertsNotSaved

\* AlertsInv holds before the page is opened.
LEMMA AlertsInitially == CalmInit /\ AlertsInit => AlertsInv
<1> SUFFICES ASSUME AlertsInit PROVE AlertsInv
  OBVIOUS
<1>1. NoPatch \in Patches /\ NoPatch.at = "idle"
  BY DEF NoPatch, Patches, Tab, Saying
<1>2. /\ DefaultAlerts \in [Tab -> Saying \cup {"bare"}] /\ ClientDefaults \in [Tab -> Saying]
      /\ "company" \in Tab
  BY DEF DefaultAlerts, ClientDefaults, Tab, Saying
<1>3. patch \in [Handler -> Patches] /\ \A h \in Handler : patch[h].at = "idle"
  BY <1>1 DEF AlertsInit
<1>4. AlertsTypeOK
  BY <1>2, <1>3 DEF AlertsInit, AlertsTypeOK, Patches
<1>5. AlertsCalmInv
  BY <1>3 DEF AlertsInit, AlertsCalmInv, SavesInLine, NothingUnsavedBefore, FormsFollowRows
<1> QED
  BY <1>4, <1>5 DEF AlertsInv

\* What is shown of an answer is something to say.
LEMMA ShownAnswer == \A said \in Saying \cup {"bare"} : AsShown(said) \in Saying
  BY DEF AsShown, Saying

\* A save that has ended is one.
LEMMA EndedPatch == PatchEnded \in Patches /\ (calm => PatchEnded.at = "idle")
  BY DEF PatchEnded, NoPatch, Patches, Tab, Saying

\* A save goes on.
LEMMA PatchAt ==
  ASSUME NEW h \in Handler, NEW v \in {"written", "refused"},
         patch \in [Handler -> Patches], patch' = [patch EXCEPT ![h].at = v]
  PROVE  /\ patch' \in [Handler -> Patches]
         /\ patch'[h].at = v /\ patch'[h].tab = patch[h].tab /\ patch'[h].says = patch[h].says
         /\ \A g \in Handler \ {h} : patch'[g] = patch[g]
<1>1. patch[h] \in Patches
  OBVIOUS
<1>2. [patch[h] EXCEPT !.at = v] \in Patches
  BY <1>1 DEF Patches
<1>3. /\ [patch[h] EXCEPT !.at = v].at = v
      /\ [patch[h] EXCEPT !.at = v].tab = patch[h].tab
      /\ [patch[h] EXCEPT !.at = v].says = patch[h].says
  BY <1>1 DEF Patches
<1>4. patch' = [patch EXCEPT ![h] = [patch[h] EXCEPT !.at = v]]
  OBVIOUS
<1> QED
  BY <1>2, <1>3, <1>4

\* A save becomes another.
LEMMA PatchIs ==
  ASSUME NEW h \in Handler, NEW p \in Patches,
         patch \in [Handler -> Patches], patch' = [patch EXCEPT ![h] = p]
  PROVE  /\ patch' \in [Handler -> Patches] /\ patch'[h] = p
         /\ \A g \in Handler \ {h} : patch'[g] = patch[g]
  OBVIOUS

\* AlertsInv is inductive.
LEMMA AlertsStep == AlertsInv /\ [AlertsNext]_<<alertVars, calm>> => AlertsInv'
<1> SUFFICES ASSUME AlertsInv, [AlertsNext]_<<alertVars, calm>> PROVE AlertsInv'
  OBVIOUS
<1>t. /\ mayManage \in BOOLEAN
      /\ alertRows \in [Tab -> Saying \cup {"absent", "bare"}]
      /\ alertPage \in {"away", "asked", "read", "open"}
      /\ brought \in [Tab -> Saying \cup {"bare"}]
      /\ alertTab \in Tab /\ alertForms \in [Tab -> Saying]
      /\ alertsDirty \in BOOLEAN /\ alertsSaving \in Handler \cup {"none"}
      /\ patch \in [Handler -> Patches]
      /\ alertsSaving # "none" => alertPage = "open"
      /\ loadedWell \in BOOLEAN /\ touched \subseteq Tab /\ crossed \in BOOLEAN
  BY DEF AlertsInv, AlertsTypeOK, Patches
<1>c. calm => SavesInLine /\ NothingUnsavedBefore /\ FormsFollowRows
  BY DEF AlertsInv, AlertsCalmInv
<1>n. "none" \notin Handler
  BY HandlerAssumption
<1>d. DefaultAlerts \in [Tab -> Saying \cup {"bare"}] /\ ClientDefaults \in [Tab -> Saying]
  BY DEF DefaultAlerts, ClientDefaults, Saying
<1>1. CASE OpenAlerts
  <2>1. AlertsTypeOK'
    BY <1>t, <1>1 DEF OpenAlerts, AlertsTypeOK, Patches
  <2>2. ASSUME calm PROVE SavesInLine' /\ NothingUnsavedBefore' /\ FormsFollowRows'
    BY <1>c, <1>1, <2>2 DEF OpenAlerts, SavesInLine, Carries, NothingUnsavedBefore,
       FormsFollowRows
  <2> QED
    BY <1>1, <2>1, <2>2 DEF OpenAlerts, AlertsInv, AlertsCalmInv
<1>2. CASE GetNotificationSettings
  <2>1. alertRows' \in [Tab -> Saying \cup {"bare"}]
    BY <1>t, <1>2, <1>d DEF GetNotificationSettings
  <2>2. AlertsTypeOK'
    BY <1>t, <1>2, <2>1 DEF GetNotificationSettings, AlertsTypeOK, Patches
  <2>3. ASSUME calm PROVE SavesInLine' /\ NothingUnsavedBefore' /\ FormsFollowRows'
    BY <1>c, <1>2, <2>3
       DEF GetNotificationSettings, SavesInLine, NothingUnsavedBefore, FormsFollowRows
  <2> QED
    BY <1>2, <2>2, <2>3 DEF GetNotificationSettings, AlertsInv, AlertsCalmInv
<1>3. CASE AlertsLoaded
  <2>1. \/ /\ alertPage = "read" /\ loadedWell' = TRUE
           /\ alertForms' = [t \in Tab |-> AsShown(brought[t])]
        \/ /\ alertPage \in {"asked", "read"} /\ loadedWell' = FALSE
           /\ UNCHANGED alertForms
    BY <1>3 DEF AlertsLoaded
  <2>2. alertForms' \in [Tab -> Saying] /\ loadedWell' \in BOOLEAN
    <3>1. CASE alertForms' = [t \in Tab |-> AsShown(brought[t])]
      <4>1. \A t \in Tab : AsShown(brought[t]) \in Saying
        BY <1>t, ShownAnswer
      <4> QED
        BY <2>1, <3>1, <4>1
    <3>2. CASE UNCHANGED alertForms
      BY <1>t, <2>1, <3>2
    <3> QED
      BY <2>1, <3>1, <3>2
  <2>3. /\ alertPage' = "open" /\ brought' = DefaultAlerts
        /\ UNCHANGED <<mayManage, alertRows, alertTab, alertsDirty, alertsSaving, patch,
                       touched, crossed, calm>>
    BY <1>3 DEF AlertsLoaded
  <2>4. AlertsTypeOK'
    BY <1>t, <1>d, <2>2, <2>3 DEF AlertsTypeOK, Patches
  <2>5. ASSUME calm PROVE SavesInLine' /\ NothingUnsavedBefore' /\ FormsFollowRows'
    BY <1>c, <1>t, <2>1, <2>3, <2>5 DEF SavesInLine, Carries, NothingUnsavedBefore,
       FormsFollowRows
  <2> QED
    BY <2>3, <2>4, <2>5 DEF AlertsInv, AlertsCalmInv
<1>4. CASE LeaveAlerts
  <2>1. AlertsTypeOK'
    BY <1>t, <1>d, <1>4 DEF LeaveAlerts, AlertsTypeOK, Patches, Tab
  <2>2. ASSUME calm PROVE SavesInLine' /\ NothingUnsavedBefore' /\ FormsFollowRows'
    BY <1>c, <1>4, <2>2
       DEF LeaveAlerts, SavesInLine, NothingUnsavedBefore, FormsFollowRows, PatchesRest
  <2> QED
    BY <1>4, <2>1, <2>2 DEF LeaveAlerts, AlertsInv, AlertsCalmInv
<1>5. CASE SelectTab
  <2>1. AlertsTypeOK'
    BY <1>t, <1>5 DEF SelectTab, AlertsTypeOK, Patches
  <2>2. ASSUME calm PROVE SavesInLine' /\ NothingUnsavedBefore' /\ FormsFollowRows'
    BY <1>c, <1>5, <2>2
       DEF SelectTab, SavesInLine, Carries, NothingUnsavedBefore, FormsFollowRows
  <2> QED
    BY <1>5, <2>1, <2>2 DEF SelectTab, AlertsInv, AlertsCalmInv
<1>6. CASE alertPage = "open" /\ EditAlerts
  <2>1. /\ calm => alertsSaving = "none"
        /\ alertForms' = [alertForms EXCEPT ![alertTab] = IF @ = "first" THEN "second" ELSE "first"]
        /\ alertsDirty' = TRUE
        /\ touched' = touched \cup {alertTab}
        /\ crossed' = (crossed \/ ~(touched \subseteq {alertTab}))
        /\ UNCHANGED <<mayManage, alertRows, alertPage, brought, alertTab, alertsSaving, patch,
                       loadedWell, calm>>
    BY <1>6 DEF EditAlerts, Crossing
  <2>2. AlertsTypeOK'
    BY <1>t, <2>1 DEF AlertsTypeOK, Patches, Saying
  <2>3. ASSUME calm PROVE SavesInLine' /\ NothingUnsavedBefore' /\ FormsFollowRows'
    <3>1. \A h \in Handler : patch[h].at = "idle"
      BY <1>c, <1>n, <2>1, <2>3 DEF SavesInLine, Carries
    <3>2. \A t \in Tab \ touched' : t \in Tab \ touched /\ alertForms'[t] = alertForms[t]
      BY <1>t, <2>1
    <3> QED
      BY <1>6, <1>c, <1>t, <2>1, <2>3, <3>1, <3>2
         DEF SavesInLine, NothingUnsavedBefore, FormsFollowRows
  <2> QED
    BY <2>1, <2>2, <2>3 DEF AlertsInv, AlertsCalmInv
<1>7. ASSUME NEW h \in Handler, SaveAlerts(h) PROVE AlertsInv'
  <2> DEFINE p == [at |-> "sent", tab |-> alertTab, says |-> alertForms[alertTab]]
  <2>1. /\ alertPage = "open" /\ patch' = [patch EXCEPT ![h] = p] /\ alertsSaving' = h
        /\ calm => \A g \in Handler : patch[g].at = "idle"
        /\ crossed' = (crossed \/ ~(touched \subseteq {alertTab}))
        /\ UNCHANGED <<mayManage, alertRows, alertPage, brought, alertTab, alertForms,
                       alertsDirty, loadedWell, touched, calm>>
    BY <1>7 DEF SaveAlerts, MayTake, PatchSteps, Crossing
  <2>2. p \in Patches /\ p.at = "sent" /\ p.tab = alertTab /\ p.says = alertForms[alertTab]
    BY <1>t DEF Patches
  <2> HIDE DEF p
  <2>3. /\ patch' \in [Handler -> Patches] /\ patch'[h] = p
        /\ \A g \in Handler \ {h} : patch'[g] = patch[g]
    BY <1>t, <2>1, <2>2, PatchIs
  <2>4. AlertsTypeOK'
    BY <1>t, <2>1, <2>3 DEF AlertsTypeOK, Patches
  <2>5. ASSUME calm PROVE SavesInLine' /\ NothingUnsavedBefore' /\ FormsFollowRows'
    <3>1. Carries(h)'
      BY <2>1, <2>2, <2>3 DEF Carries
    <3>2. \A g \in Handler \ {h} : patch'[g].at = "idle"
      BY <2>1, <2>3, <2>5
    <3>3. SavesInLine'
      BY <2>2, <2>3, <3>1, <3>2 DEF SavesInLine
    <3> QED
      BY <1>c, <2>1, <2>5, <3>3 DEF NothingUnsavedBefore, FormsFollowRows
  <2> QED
    BY <2>1, <2>4, <2>5 DEF AlertsInv, AlertsCalmInv
<1>8. ASSUME NEW h \in Handler, StoreAlerts(h) PROVE AlertsInv'
  <2>1. /\ patch[h].at = "sent" /\ patch' = [patch EXCEPT ![h].at = "written"]
        /\ alertRows' = [alertRows EXCEPT ![patch[h].tab] = patch[h].says]
        /\ UNCHANGED <<mayManage, alertPage, brought, alertTab, alertForms, alertsDirty,
                       alertsSaving, loadedWell, touched, crossed, calm>>
    BY <1>8 DEF StoreAlerts
  <2>2. /\ patch' \in [Handler -> Patches]
        /\ patch'[h].at = "written" /\ patch'[h].tab = patch[h].tab
        /\ patch'[h].says = patch[h].says
        /\ \A g \in Handler \ {h} : patch'[g] = patch[g]
    BY <1>t, <2>1, PatchAt
  <2>3. patch[h].tab \in Tab /\ patch[h].says \in Saying
    BY <1>t DEF Patches
  <2>4. AlertsTypeOK'
    BY <1>t, <2>1, <2>2, <2>3 DEF AlertsTypeOK, Patches
  <2>5. ASSUME calm PROVE SavesInLine' /\ NothingUnsavedBefore' /\ FormsFollowRows'
    <3>1. Carries(h)
      BY <1>c, <2>1, <2>5 DEF SavesInLine
    <3>2. Carries(h)'
      BY <1>t, <2>1, <2>2, <2>3, <3>1 DEF Carries
    <3>3. \A g \in Handler \ {h} : patch'[g].at = "idle"
      BY <1>c, <2>1, <2>2, <2>5 DEF SavesInLine
    <3>4. SavesInLine'
      BY <2>2, <3>2, <3>3 DEF SavesInLine
    <3>5. \A t \in Tab : alertRows'[t] = alertRows[t] \/ alertForms[t] = AsShown(alertRows'[t])
      BY <1>t, <2>1, <2>3, <3>1 DEF Carries, AsShown, Saying
    <3> QED
      BY <1>c, <2>1, <2>5, <3>4, <3>5 DEF NothingUnsavedBefore, FormsFollowRows
  <2> QED
    BY <2>1, <2>4, <2>5 DEF AlertsInv, AlertsCalmInv
<1>9. ASSUME NEW h \in Handler, RefuseAlerts(h) PROVE AlertsInv'
  <2>1. /\ patch[h].at = "sent" /\ patch' = [patch EXCEPT ![h].at = "refused"]
        /\ UNCHANGED <<mayManage, alertRows, alertPage, brought, alertTab, alertForms,
                       alertsDirty, alertsSaving, loadedWell, touched, crossed, calm>>
    BY <1>9 DEF RefuseAlerts
  <2>2. /\ patch' \in [Handler -> Patches]
        /\ patch'[h].at = "refused" /\ patch'[h].tab = patch[h].tab
        /\ patch'[h].says = patch[h].says
        /\ \A g \in Handler \ {h} : patch'[g] = patch[g]
    BY <1>t, <2>1, PatchAt
  <2>4. AlertsTypeOK'
    BY <1>t, <2>1, <2>2 DEF AlertsTypeOK, Patches
  <2>5. ASSUME calm PROVE SavesInLine' /\ NothingUnsavedBefore' /\ FormsFollowRows'
    <3>2. Carries(h)'
      BY <1>c, <2>1, <2>2, <2>5 DEF Carries, SavesInLine
    <3>3. \A g \in Handler \ {h} : patch'[g].at = "idle"
      BY <1>c, <2>1, <2>2, <2>5 DEF SavesInLine
    <3>4. SavesInLine'
      BY <2>2, <3>2, <3>3 DEF SavesInLine
    <3>5. alertPage = "open"
      BY <1>c, <2>1, <2>5 DEF NothingUnsavedBefore
    <3> QED
      BY <1>c, <2>1, <2>5, <3>4, <3>5 DEF NothingUnsavedBefore, FormsFollowRows
  <2> QED
    BY <2>1, <2>4, <2>5 DEF AlertsInv, AlertsCalmInv
<1>10. ASSUME NEW h \in Handler, AlertsSaved(h) PROVE AlertsInv'
  <2>1. /\ patch[h].at = "written" /\ patch' = [patch EXCEPT ![h] = PatchEnded]
        /\ UNCHANGED <<mayManage, alertRows, alertPage, brought, alertTab, alertForms,
                       loadedWell, calm>>
        /\ \/ /\ alertsSaving = h /\ alertsDirty' = FALSE /\ alertsSaving' = "none"
              /\ touched' = touched \ {patch[h].tab}
              /\ crossed' = (crossed /\ touched' # {})
           \/ alertsSaving # h /\ UNCHANGED <<alertsDirty, alertsSaving, touched, crossed>>
    BY <1>10 DEF AlertsSaved
  <2>2. /\ patch' \in [Handler -> Patches] /\ patch'[h] = PatchEnded
        /\ \A g \in Handler \ {h} : patch'[g] = patch[g]
    BY <1>t, <2>1, PatchIs, EndedPatch
  <2>4. AlertsTypeOK'
    BY <1>t, <2>1, <2>2 DEF AlertsTypeOK, Patches
  <2>5. ASSUME calm PROVE SavesInLine' /\ NothingUnsavedBefore' /\ FormsFollowRows'
    <3>1. Carries(h)
      BY <1>c, <2>1, <2>5 DEF SavesInLine
    <3>2. \A g \in Handler : patch'[g].at = "idle"
      BY <1>c, <2>1, <2>2, <2>5, EndedPatch DEF SavesInLine
    <3>3. SavesInLine' /\ NothingUnsavedBefore'
      BY <1>c, <2>1, <2>5, <3>1, <3>2 DEF SavesInLine, NothingUnsavedBefore, Carries
    <3>4. /\ alertsDirty' = FALSE /\ touched' = touched \ {patch[h].tab}
          /\ crossed' = (crossed /\ touched' # {})
      BY <2>1, <3>1 DEF Carries
    <3>5. ~crossed' => touched' = {}
      BY <3>1, <3>4 DEF Carries
    <3>6. patch[h].tab \in Tab /\ patch[h].says \in Saying
      BY <1>t DEF Patches
    <3>7. alertForms[patch[h].tab] = AsShown(alertRows[patch[h].tab])
      BY <2>1, <3>1, <3>6 DEF Carries, AsShown, Saying
    <3>8. \A t \in Tab \ touched' : t \in Tab \ touched \/ t = patch[h].tab
      BY <3>4
    <3>9. alertPage = "open" /\ loadedWell =>
            \A t \in Tab \ touched' : alertForms[t] = AsShown(alertRows[t])
      BY <1>c, <2>5, <3>7, <3>8 DEF FormsFollowRows
    <3> QED
      BY <2>1, <3>3, <3>4, <3>5, <3>9 DEF FormsFollowRows
  <2> QED
    BY <2>1, <2>4, <2>5 DEF AlertsInv, AlertsCalmInv
<1>11. ASSUME NEW h \in Handler, AlertsNotSaved(h) PROVE AlertsInv'
  <2>1. /\ patch' = [patch EXCEPT ![h] = PatchEnded]
        /\ calm => patch[h].at = "refused"
        /\ alertsSaving' = IF alertsSaving = h THEN "none" ELSE alertsSaving
        /\ UNCHANGED <<mayManage, alertRows, alertPage, brought, alertTab, alertForms,
                       alertsDirty, loadedWell, touched, crossed, calm>>
    BY <1>11 DEF AlertsNotSaved, MayBreak
  <2>2. /\ patch' \in [Handler -> Patches] /\ patch'[h] = PatchEnded
        /\ \A g \in Handler \ {h} : patch'[g] = patch[g]
    BY <1>t, <2>1, PatchIs, EndedPatch
  <2>4. AlertsTypeOK'
    BY <1>t, <2>1, <2>2 DEF AlertsTypeOK, Patches
  <2>5. ASSUME calm PROVE SavesInLine' /\ NothingUnsavedBefore' /\ FormsFollowRows'
    <3>2. \A g \in Handler : patch'[g].at = "idle"
      BY <1>c, <2>1, <2>2, <2>5, EndedPatch DEF SavesInLine
    <3> QED
      BY <1>c, <2>1, <2>5, <3>2 DEF SavesInLine, NothingUnsavedBefore, FormsFollowRows
  <2> QED
    BY <2>1, <2>4, <2>5 DEF AlertsInv, AlertsCalmInv
<1>12. CASE UNCHANGED <<alertVars, calm>>
  BY <1>12 DEF alertVars, AlertsInv, AlertsTypeOK, AlertsCalmInv, SavesInLine, Carries,
     NothingUnsavedBefore, FormsFollowRows
<1> QED
  BY <1>1, <1>2, <1>3, <1>4, <1>5, <1>6, <1>7, <1>8, <1>9, <1>10, <1>11, <1>12
     DEF AlertsNext, EditCompanyAlerts, EditMyAlerts

\* However the tabs are edited and saved, AlertsInv holds (NotificationsSettingsPage).
THEOREM AlertsInvariance == AlertsSpec => []AlertsInv
  BY AlertsInitially, AlertsStep, PTL DEF AlertsSpec

\* For saves that do not overlap, of any number of requests: a form of the notification
\* settings without unsaved changes says what the server has, and the page asks before
\* changes are lost (the page of notification settings).
THEOREM AlertsStaySound == AlertsSpec => []AlertsSound
  BY AlertsImplied, AlertsInvariance, PTL

=============================================================================
