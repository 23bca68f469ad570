------------------------------- MODULE NorParts -------------------------------
(***************************************************************************)
(* flash/nor: nor_devices_supported, the vendors in the order in which     *)
(* DRL_NOR_Probe asks them, each with what its routine writes and reads    *)
(* and with its table of parts.                                            *)
(***************************************************************************)
EXTENDS Integers, Sequences

-----------------------------------------------------------------------------
(* The routines of the vendors: what they write and read, in their order.  *)

W(address, data) == [op |-> "write", address |-> address, data |-> data]
R(address, code) == [op |-> "read", address |-> address, data |-> code]

Unlock == <<W(1365, 170), W(682, 85)>>
ReadId == Unlock \o <<W(1365, 144)>>

IntelCodes ==
  <<W(0, 80), W(0, 255), W(0, 144), R(0, 1), R(1, 2), W(0, 255)>>

RenesasCodesNoReset ==   \* mutant: the chip is not put back into array mode
  <<W(0, 80), W(0, 255), W(0, 144), R(0, 1), R(1, 2)>>
RenesasCodes ==
  <<W(0, 80), W(0, 255), W(0, 144), R(0, 1), R(1, 2), W(0, 255)>>

SamsungCodes ==
  <<W(0, 240)>> \o ReadId \o <<R(0, 1), W(0, 240)>> \o ReadId
    \o <<R(1, 2), W(0, 240)>>

AmdCodes ==
  <<W(0, 240)>> \o ReadId \o <<R(0, 1), W(0, 240)>> \o ReadId
    \o <<R(1, 2), R(14, 3), R(15, 4), W(0, 240)>>

ToshibaCodes ==
  <<W(0, 240)>> \o ReadId \o <<R(0, 1), R(1, 2)>> \o Unlock \o <<W(1365, 240)>>

-----------------------------------------------------------------------------
(* The tables of the vendors, whole: names and the codes to match.  A name *)
(* has _ where the source has a space, a bracket or a slash.               *)

Part(name, codes) == [name |-> name, codes |-> codes]

NoPart == Part("none", <<>>)

IntelParts ==
  <<Part("INTEL_PF38F3040M0Y3DF", <<137, \h8903>>),
    Part("INTEL_PH28F640W18B85", <<137, \h8865>>),
    Part("INTEL_PF38F4050M0Y3DE", <<137, \h8904>>),
    Part("INTEL_PF38F5060M0Y3DFA", <<137, \h8881>>),
    Part("INTEL_PF38F1030W0ZBQ0", <<137, \h8890>>),
    Part("NUMONYX_M36W0R6050", <<32, \h88C0>>),
    Part("NUMONYX_M28W320CT", <<32, \h88BA>>),
    Part("NUMONYX_M28W320CT", <<32, \h88BB>>),
    Part("NUMONYX_M28W640_E_H_CT", <<32, \h8848>>),
    Part("NUMONYX_M28W640_E_H_CB", <<32, \h8849>>),
    Part("NUMONYX_M36W0R5040U6ZS", <<32, \h8828>>),
    Part("ST_M36C0W6050T0", <<32, \h8848>>),
    Part("NUMONYX_M58LR128KC", <<32, \h882E>>)>>

RenesasParts ==
  <<Part("RENESAS_M5M29KD157AKT", <<28, 200>>),
    Part("RENESAS_R11M4400LRABBB", <<28, 125>>),
    Part("RENESAS_M6MGT166S4BWG", <<28, 160>>),
    Part("RENESAS_M6MGB166S4BWG", <<28, 161>>),
    Part("RENESAS_M6MGB166S4BWG", <<28, 184>>)>>

\* The last entry asks for four codes of which the routine reads two.
SamsungParts ==
  <<Part("SAMSUNG_K5N5629ABM", <<236, \h2601>>),
    Part("SAMSUNG_K5N6433ABM", <<236, \h2255>>),
    Part("SAMSUNG_K5N6433ATM", <<236, \h2254>>),
    Part("SAMSUNG_K5N2833ATB", <<236, \h2404>>),
    Part("SAMSUNG_K5N2833-66ABB", <<236, \h2405>>),
    Part("SAMSUNG_K5N5629ATC", <<236, \h2208>>),
    Part("SAMSUNG_K5N5629ABC", <<236, \h2209>>),
    Part("SAMSUNG_K5N5629AUC", <<236, \h3018>>),
    Part("SAMSUNG_K5A6317CT_K5J6332CT", <<236, \h22E0>>),
    Part("SAMSUNG_K5L6331CA", <<236, \h257E, 0, 0>>)>>

AmdOwnParts ==
  <<Part("AMD_Am41LV3204MT10I", <<1, \h227E, \h221A, \h2201>>),
    Part("AMD_Am41LV3204MB10I", <<1, \h227E, \h221A, \h2200>>),
    Part("AMD_Am29BDS643G", <<1, \h227E, \h2202, \h2200>>)>>

\* In the order of spansion_parts.
S29WSParts ==
  <<Part("SPANSION_S29WS256N0SB", <<1, \h227E, \h2230, \h2200>>),
    Part("SPANSION_S29WS512P", <<1, \h227E, \h223D, \h2200>>)>>

S71Parts ==
  <<Part("SPANSION_S71WS256PD0", <<1, \h227E, \h2242, \h2200>>),
    Part("SPANSION_S71GL064A_TOP", <<1, \h227E, \h2210, \h2200>>),
    Part("SPANSION_S71GL064A_BOT", <<1, \h227E, \h2210, \h2200>>),
    Part("SPANSION_S71GL032A_TOP", <<1, \h227E, \h221A, \h2201>>),
    Part("SPANSION_S71GL032A_BOT", <<1, \h227E, \h221A, \h2200>>),
    Part("SPANSION_S71PL064J", <<1, \h227E, \h2202, \h2201>>),
    Part("SPANSION_S71PL032J", <<1, \h227E, \h220A, \h2201>>),
    Part("SPANSION_S71NS512R", <<1, \h387E, \h3816, \h3803>>),
    Part("SPANSION_S71NS256PC0", <<1, \h317E, \h3141, \h3100>>),
    Part("SPANSION_S71NS128PC0", <<1, \h327E, \h3243, \h3200>>),
    Part("SPANSION_S71VS064R_TOP", <<1, 126, 97, 1>>),
    Part("SPANSION_S71VS064R_BOT", <<1, 126, 97, 2>>)>>

S71VSAndS29Parts ==
  <<Part("SPANSION_S71VS128R_TOP", <<1, 126, 99, 1>>),
    Part("SPANSION_S71VS128R_BOT", <<1, 126, 101, 1>>),
    Part("SPANSION_S71VS256R_TOP", <<1, 126, 100, 1>>),
    Part("SPANSION_S71VS256R_BOT", <<1, 126, 102, 1>>),
    Part("SPANSION_S29NS064N", <<1, \h2B7E, \h2B33, \h2B00>>),
    Part("SPANSION_S29NS512P", <<1, \h307E, \h303F, \h3000>>),
    Part("SPANSION_S29NS256P", <<1, \h317E, \h3141, \h3100>>),
    Part("SPANSION_S29NS256P", <<1, \h327E, \h3243, \h3200>>),
    Part("SPANSION_S29PL256N", <<1, \h227E, \h223C, \h2200>>),
    Part("SPANSION_S29PL127N_J", <<1, \h227E, \h2220, \h2200>>),
    Part("SPANSION_S29PL129N", <<1, \h227E, \h2221, \h2200>>),
    Part("SPANSION_S29PL064J", <<1, \h227E, \h2202, \h2201>>),
    Part("SPANSION_S29PL032J", <<1, \h227E, \h220A, \h2201>>)>>

AmdParts == AmdOwnParts \o S29WSParts \o S71Parts \o S71VSAndS29Parts

ToshibaParts ==
  <<Part("TOSHIBA_TC58FYM7T8C_TOP", <<152, 158>>),
    Part("TOSHIBA_TC58FYM7T8C_BOT", <<152, 159>>),
    Part("TOSHIBA_TV00560002EDGB", <<152, 150>>),
    Part("TOSHIBA_TV00670002CDGB", <<152, 3>>),
    Part("TOSHIBA_TY5701111183KC04", <<152, 158>>),
    Part("TOSHIBA_TV00560002DDGB", <<152, 73>>)>>

\* A vendor's routine: it reads the codes its way and looks them up in its table.
Asks(codes, parts) == [codes |-> codes, parts |-> parts]

DRL_NOR_Probe_Intel_Numonyx      == Asks(IntelCodes, IntelParts)
DRL_NOR_Probe_Mitsubishi_Renesas == Asks(RenesasCodes, RenesasParts)
DRL_NOR_Probe_Samsung            == Asks(SamsungCodes, SamsungParts)
DRL_NOR_Probe_AMD_Spansion       == Asks(AmdCodes, AmdParts)
DRL_NOR_Probe_Toshiba            == Asks(ToshibaCodes, ToshibaParts)

\* Whether its parts have a CFI table, and whether they take Intel's commands.
Routine(asks, cfi, intel_way) ==
  [codes |-> asks.codes, parts |-> asks.parts, cfi |-> cfi, intel_way |-> intel_way]

nor_devices_supported ==
  <<Routine(DRL_NOR_Probe_Intel_Numonyx, TRUE, TRUE),
    Routine(DRL_NOR_Probe_Mitsubishi_Renesas, FALSE, FALSE),
    Routine(DRL_NOR_Probe_Samsung, TRUE, FALSE),
    Routine(DRL_NOR_Probe_AMD_Spansion, TRUE, FALSE),
    Routine(DRL_NOR_Probe_Toshiba, TRUE, FALSE)>>

\* The tables for the chips of a family, and the parts in them.
Tables(family) ==
  CASE family = "intel" -> {IntelParts, RenesasParts}
    [] family = "amd"   -> {SamsungParts, AmdParts, ToshibaParts}
    [] OTHER            -> {}

PartsOf(family) == UNION {{t[k] : k \in 1 .. Len(t)} : t \in Tables(family)}
=============================================================================
