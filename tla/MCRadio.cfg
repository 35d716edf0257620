\* The settings of the chip: clocks and filters, synthesizers, gain, AGC and RSSI.
SPECIFICATION Spec
CONSTANTS
  Foci = {"baseband", "synth", "gain", "agc"}
  SamplFreqs <- MCSamplFreqs
  Bandwidths <- MCBandwidths
  FirConfigs <- MCFirConfigs
  FilterFiles <- MCFilterFiles
  Wirings <- MCWirings
  Cals = {"ok", "tx", "quad"}
  MaxCalls = 3
  LoFreqs <- MCLoFreqs
  LoBoards <- MCLoBoards
  LoProfiles = {0, 7}
  AlcWords = {20, 22}
  MaxLoCalls = 3
  GainBoards <- MCGainBoards
  GainsAsked <- MCGainsAsked
  AttensAsked = {0, 10100, 89750, 90000}
  MaxGainCalls = 3
  AgcClocks <- MCAgcClocks
  AgcConfs <- MCAgcConfs
  RssiConfs <- MCRssiConfs
INVARIANTS RadioTypeOK ClocksAgree RatesGranted LosObtained TimesFollowClocks
PROPERTIES ProfilesObeyed GainsKept
CHECK_DEADLOCK FALSE
