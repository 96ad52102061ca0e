---------------------------- MODULE ThemeWatcher -----------------------------
(***************************************************************************)
(* ThemeWatcher: polls what the desktop says about dark and light, and     *)
(* emits schemeChanged when the answer is another one.                     *)
(*                                                                         *)
(* `says` is the desktop: for every source its answer, or "none".          *)
(***************************************************************************)
CONSTANT
  Desktops  \* the desktops considered, a subset of Says

Schemes == {"light", "dark"}

\* marker: the exported marker file; look, colours: KDE's LookAndFeelPackage
\* and ColorScheme, of all files; hint: Qt's colour scheme; portal: the
\* portal's setting; palette: the brightness of the window colour.
Sources == {"marker", "look", "colours", "hint", "portal", "palette"}

Says == [Sources -> Schemes \cup {"none"}]

ASSUME DesktopsAssumption == Desktops \subseteq Says

VARIABLES
  says,     \* what the desktop says
  forced,   \* forced_: --theme of the command line, or "none"
  current   \* current_

themeVars == <<says, forced, current>>

ThemeTypeOK ==
  /\ says \in Desktops
  /\ forced \in Schemes \cup {"none"}
  /\ current \in Schemes

\* The constructor of the application calls setForcedScheme before anybody
\* listens.
ThemeInit ==
  /\ says \in Desktops
  /\ forced \in Schemes \cup {"none"}
  /\ current = (IF forced = "none" THEN "light" ELSE forced)

\* detectKdeTheme: the look-and-feel package of any file comes before the
\* colour scheme of any file.
DetectKdeTheme == IF says["look"] # "none" THEN says["look"] ELSE says["colours"]

ReadKdeConfig == IF says["marker"] # "none" THEN says["marker"] ELSE DetectKdeTheme

\* The first source that knows; without any, the scheme stays.
Probe ==
  IF forced # "none"            THEN forced
  ELSE IF ReadKdeConfig # "none"  THEN ReadKdeConfig
  ELSE IF says["hint"] # "none"   THEN says["hint"]
  ELSE IF says["portal"] # "none" THEN says["portal"]
  ELSE IF says["palette"] # "none" THEN says["palette"]
  ELSE current

\* refresh() and the timer; the emission is whether current has changed.
OnTick ==
  /\ current' = Probe
  /\ UNCHANGED <<says, forced>>

DesktopChanges ==
  /\ says' \in Desktops \ {says}
  /\ UNCHANGED <<forced, current>>
=============================================================================
