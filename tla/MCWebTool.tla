----------------------------- MODULE MCWebTool -----------------------------
(* Two budget modes, the profiles furry, furry_fse and broad as they ship, *)
(* one that only the guidance calls strict, and one page that redirects.   *)
EXTENDS WebTool

MCFields == {"results", "searches", "opens", "retrievals", "chars"}

Limits(r, s, o, t, c) ==
  [results |-> r, searches |-> s, opens |-> o, retrievals |-> t, chars |-> c]

MCBuiltIn == [quick |-> Limits(1, 1, 1, 1, 1), normal |-> Limits(2, 2, 1, 2, 2)]
MCModeTable == [quick |-> Limits(1, 1, 1, 2, 1), normal |-> Limits(2, 3, 2, 0, 3)]
MCAbsolute == Limits(2, 3, 2, 2, 3)
MCOperatorCaps == Limits(0, 2, 1, 9, 2)
MCFlat == Limits(0, 0, 0, 0, 0)

Cfg(e, f, strict, expected) ==
  [engines |-> e, fallbacks |-> f, strict |-> strict, expected |-> expected]

MCPolicy == [broad |-> Cfg({"web", "old"}, <<>>, FALSE, {})]
MCConfig ==
  [broad |-> Cfg({"web"}, <<>>, FALSE, {}),
   furry |-> Cfg({"fse", "art"}, <<"furry_fse", "broad">>, FALSE, {}),
   furry_fse |-> Cfg({"fse"}, <<>>, TRUE, {"fse"}),
   wikis |-> Cfg({"fse"}, <<"broad">>, FALSE, {})]

MCSourceOf == [f |-> "fse", w |-> "web"]
MCInferred == [q \in {"q", ""} |-> "broad"]
MCLength == [u \in {"u", "v"} |-> 5]

Ask(action, query, profile, mode) ==
  [action |-> action, query |-> query, profile |-> profile, mode |-> mode,
   engines |-> {}, top |-> 0, url |-> "", page |-> ""]

MCCalls ==
  {Ask("search", "q", p, "none") : p \in {"furry", "furry_fse", "wikis"}}
    \cup {Ask("search", "q", "auto", "quick"),
          [Ask("search", "q", "wikis", "normal") EXCEPT !.engines = {"fse"}],
          Ask("capabilities", "", "auto", "none"), Ask("click", "", "auto", "none"),
          [Ask("open_page", "", "auto", "quick") EXCEPT !.url = "u"],
          [Ask("find_in_page", "q", "auto", "none") EXCEPT !.url = "u", !.page = "v"],
          [Ask("retrieve", "", "auto", "quick") EXCEPT !.url = "u"],
          [Ask("retrieve", "", "auto", "none") EXCEPT !.url = "u"]}
=============================================================================
