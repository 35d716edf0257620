SPECIFICATION Spec
CONSTANTS
  Foci = {"synth"}
  SamplFreqs <- MCSamplFreqs
  Bandwidths <- MCBandwidths
  FirConfigs <- MCFirConfigs
  FilterFiles <- MCFilterFiles
  Wirings <- MCWirings
  Cals = {"ok", "tx", "quad"}
  MaxCalls = 3
  LoFreqs <- MCLoFreqs
  LoBoards <- MCLoBoards
  LoProfiles = {0, 7}
  AlcWords = {20, 22}
  MaxLoCalls = 3
  GainBoards <- MCGainBoards
  GainsAsked <- MCGainsAsked
  AttensAsked = {0, 10100, 89750, 90000}
  MaxGainCalls = 3
  AgcClocks <- MCAgcClocks
  AgcConfs <- MCAgcConfs
  RssiConfs <- MCRssiConfs
INVARIANT LoObeyed
CHECK_DEADLOCK FALSE
