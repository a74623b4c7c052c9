----------------------------- MODULE ShippedAbis -----------------------------
(***************************************************************************)
(* The ABIs the library ships, src/src/abi/shared/json: the functions and  *)
(* events of each with their types, in the order the code puts them        *)
(* together, which decides what a name means when an ABI takes over        *)
(* another one.  The names of arguments and results are left out.          *)
(*                                                                         *)
(* A list longer than a page of source is in parts; "...Own" is what an    *)
(* ABI has beside what it takes over.                                      *)
(***************************************************************************)
EXTENDS Abi

(***************************************************************************)
(* opnet/OP_NET_ABI.ts                                                     *)
(***************************************************************************)

OP_NET_ABI ==
  <<View("address", <<>>, <<"ADDRESS">>), View("deployer", <<>>, <<"ADDRESS">>)>>

(***************************************************************************)
(* opnet/OP_20_ABI.ts                                                      *)
(***************************************************************************)

OP20Events ==
  <<Ev("Transferred", <<"ADDRESS", "ADDRESS", "ADDRESS", "UINT256">>),
    Ev("Approved", <<"ADDRESS", "ADDRESS", "UINT256">>), Ev("Burned", <<"ADDRESS", "UINT256">>),
    Ev("Minted", <<"ADDRESS", "UINT256">>)>>

OP_20_ABIPart1 ==
  <<View("name", <<>>, <<"STRING">>), View("symbol", <<>>, <<"STRING">>),
    View("icon", <<>>, <<"STRING">>), View("decimals", <<>>, <<"UINT8">>),
    View("totalSupply", <<>>, <<"UINT256">>), View("maximumSupply", <<>>, <<"UINT256">>),
    View("domainSeparator", <<>>, <<"BYTES32">>), View("balanceOf", <<"ADDRESS">>, <<"UINT256">>),
    View("nonceOf", <<"ADDRESS">>, <<"UINT256">>),
    View("allowance", <<"ADDRESS", "ADDRESS">>, <<"UINT256">>),
    Fn("transfer", <<"ADDRESS", "UINT256">>, <<>>)>>

OP_20_ABIPart2 ==
  <<Fn("transferFrom", <<"ADDRESS", "ADDRESS", "UINT256">>, <<>>),
    Fn("safeTransfer", <<"ADDRESS", "UINT256", "BYTES">>, <<>>),
    Fn("safeTransferFrom", <<"ADDRESS", "ADDRESS", "UINT256", "BYTES">>, <<>>),
    Fn("increaseAllowance", <<"ADDRESS", "UINT256">>, <<>>),
    Fn("decreaseAllowance", <<"ADDRESS", "UINT256">>, <<>>),
    Fn("increaseAllowanceBySignature", <<"BYTES32", "BYTES32", "ADDRESS", "UINT256", "UINT64",
      "BYTES">>, <<>>),
    Fn("decreaseAllowanceBySignature", <<"BYTES32", "BYTES32", "ADDRESS", "UINT256", "UINT64",
      "BYTES">>, <<>>),
    Fn("burn", <<"UINT256">>, <<>>),
    View("metadata", <<>>, <<"STRING", "STRING", "STRING", "UINT8", "UINT256", "BYTES32">>),
    Fn("mint", <<"ADDRESS", "UINT256">>, <<>>), Fn("airdrop", <<"ADDRESS_UINT256_TUPLE">>, <<>>)>>

OP_20_ABI ==
  OP_20_ABIPart1 \o OP_20_ABIPart2 \o OP20Events \o OP_NET_ABI

(***************************************************************************)
(* opnet/OP_20S_ABI.ts                                                     *)
(***************************************************************************)

OP20SEvents ==
  <<Ev("PegRateUpdated", <<"UINT256", "UINT256", "UINT64">>),
    Ev("MaxStalenessUpdated", <<"UINT64", "UINT64">>),
    Ev("PegAuthorityTransferStarted", <<"ADDRESS", "ADDRESS">>),
    Ev("PegAuthorityTransferred", <<"ADDRESS", "ADDRESS">>),
    Ev("PegAuthorityRenounced", <<"ADDRESS">>)>>

OP_20S_ABIOwn ==
  <<View("pegRate", <<>>, <<"UINT256">>), View("pegAuthority", <<>>, <<"ADDRESS">>),
    View("pegUpdatedAt", <<>>, <<"UINT64">>), View("maxStaleness", <<>>, <<"UINT64">>),
    View("isStale", <<>>, <<"BOOL">>), Fn("updatePegRate", <<"UINT256">>, <<>>),
    Fn("updateMaxStaleness", <<"UINT64">>, <<>>), Fn("transferPegAuthority", <<"ADDRESS">>, <<>>),
    Fn("acceptPegAuthority", <<>>, <<>>), Fn("renouncePegAuthority", <<>>, <<>>)>>

OP_20S_ABI ==
  OP_20S_ABIOwn \o OP20SEvents \o OP_20_ABI

(***************************************************************************)
(* opnet/OP_721_ABI.ts                                                     *)
(***************************************************************************)

OP721Events ==
  <<Ev("Transferred", <<"ADDRESS", "ADDRESS", "ADDRESS", "UINT256">>),
    Ev("Approved", <<"ADDRESS", "ADDRESS", "UINT256">>),
    Ev("ApprovedForAll", <<"ADDRESS", "ADDRESS", "BOOL">>),
    Ev("Burned", <<"ADDRESS", "UINT256">>), Ev("Minted", <<"ADDRESS", "UINT256">>),
    Ev("URI", <<"STRING", "UINT256">>)>>

OP_721_ABIPart1 ==
  <<View("name", <<>>, <<"STRING">>), View("symbol", <<>>, <<"STRING">>),
    View("maxSupply", <<>>, <<"UINT256">>), View("tokenURI", <<"UINT256">>, <<"STRING">>),
    Fn("changeMetadata", <<"STRING", "STRING", "STRING", "STRING">>, <<>>),
    View("totalSupply", <<>>, <<"UINT256">>), View("balanceOf", <<"ADDRESS">>, <<"UINT256">>),
    View("ownerOf", <<"UINT256">>, <<"ADDRESS">>),
    Fn("safeTransfer", <<"ADDRESS", "UINT256", "BYTES">>, <<>>)>>

OP_721_ABIPart2 ==
  <<Fn("safeTransferFrom", <<"ADDRESS", "ADDRESS", "UINT256", "BYTES">>, <<>>),
    Fn("approve", <<"ADDRESS", "UINT256">>, <<>>), View("getApproved", <<"UINT256">>, <<>>),
    Fn("setApprovalForAll", <<"ADDRESS", "BOOL">>, <<>>),
    View("isApprovedForAll", <<"ADDRESS", "ADDRESS">>, <<"BOOL">>),
    Fn("approveBySignature", <<"BYTES32", "BYTES32", "ADDRESS", "UINT256", "UINT64", "BYTES">>,
      <<>>),
    Fn("setApprovalForAllBySignature", <<"BYTES32", "BYTES32", "ADDRESS", "BOOL", "UINT64",
      "BYTES">>, <<>>)>>

OP_721_ABIPart3 ==
  <<Fn("burn", <<"UINT256">>, <<>>), View("domainSeparator", <<>>, <<"BYTES32">>),
    View("tokenOfOwnerByIndex", <<"ADDRESS", "UINT256">>, <<"UINT256">>),
    View("nonceOf", <<"ADDRESS">>, <<"UINT256">>), Fn("setBaseURI", <<"STRING">>, <<>>),
    View("metadata", <<>>, <<"STRING", "STRING", "STRING", "STRING", "STRING", "STRING",
      "UINT256", "BYTES32">>)>>

OP_721_ABI ==
  OP_721_ABIPart1 \o OP_721_ABIPart2 \o OP_721_ABIPart3 \o OP721Events \o OP_NET_ABI

EXTENDED_OP721_EVENTS ==
  <<Ev("MintStatusChanged", <<"BOOL">>),
    Ev("ReservationCreated", <<"ADDRESS", "UINT256", "UINT64", "UINT64">>),
    Ev("ReservationClaimed", <<"ADDRESS", "UINT256", "UINT256">>),
    Ev("ReservationExpired", <<"UINT64", "UINT256">>)>>

EXTENDED_OP721_ABIOwn ==
  <<Fn("setMintEnabled", <<"BOOL">>, <<>>), View("isMintEnabled", <<>>, <<"BOOL">>),
    Fn("reserve", <<"UINT256">>, <<"UINT64", "UINT64">>), Fn("claim", <<>>, <<>>),
    Fn("purgeExpired", <<>>, <<>>),
    View("getStatus", <<>>, <<"UINT256", "UINT256", "UINT256", "UINT256", "UINT32", "UINT64",
      "UINT64", "UINT64">>),
    Fn("airdrop", <<"ARRAY_OF_ADDRESSES", "ARRAY_OF_UINT8">>, <<>>),
    Fn("setTokenURI", <<"UINT256", "STRING">>, <<>>)>>

EXTENDED_OP721_ABI ==
  EXTENDED_OP721_ABIOwn \o EXTENDED_OP721_EVENTS \o OP_721_ABI

(***************************************************************************)
(* motoswap/MOTO_ABI.ts                                                    *)
(***************************************************************************)

MOTO_ABIOwn ==
  <<View("admin", <<>>, <<"ADDRESS">>), Fn("changeAdmin", <<"ADDRESS">>, <<>>),
    Fn("adminMint", <<"ADDRESS", "UINT256">>, <<>>),
    Fn("adminBurn", <<"ADDRESS", "UINT256">>, <<>>)>>

MOTO_ABI ==
  MOTO_ABIOwn \o OP_20_ABI

(***************************************************************************)
(* motoswap/MOTOSWAP_FACTORY_ABI.ts                                        *)
(***************************************************************************)

MotoSwapFactoryEvents ==
  <<Ev("PoolCreated", <<"ADDRESS", "ADDRESS", "ADDRESS">>)>>

MotoSwapFactoryAbiOwn ==
  <<Fn("createPool", <<"ADDRESS", "ADDRESS">>, <<"ADDRESS">>),
    View("getPool", <<"ADDRESS", "ADDRESS">>, <<"ADDRESS">>),
    Fn("setStakingContractAddress", <<"ADDRESS">>, <<>>),
    View("getStakingContractAddress", <<>>, <<"ADDRESS">>)>>

MotoSwapFactoryAbi ==
  MotoSwapFactoryAbiOwn \o MotoSwapFactoryEvents \o OP_NET_ABI

(***************************************************************************)
(* motoswap/MOTOSWAP_POOL_ABI.ts                                           *)
(***************************************************************************)

MotoSwapPoolEvents ==
  <<Ev("LiquidityRemoved", <<"ADDRESS", "UINT256", "UINT256", "ADDRESS">>),
    Ev("LiquidityAdded", <<"ADDRESS", "UINT256", "UINT256">>),
    Ev("Swapped", <<"ADDRESS", "UINT256", "UINT256", "UINT256", "UINT256", "ADDRESS">>),
    Ev("Synced", <<"UINT256", "UINT256">>)>>

MotoswapPoolAbiPart1 ==
  <<Fn("initialize", <<"ADDRESS", "ADDRESS">>, <<>>),
    Fn("swap", <<"UINT256", "UINT256", "ADDRESS", "BYTES">>, <<>>),
    Fn("skim", <<"ADDRESS">>, <<>>),
    View("getReserves", <<>>, <<"UINT256", "UINT256", "UINT64">>),
    View("token0", <<>>, <<"ADDRESS">>), View("token1", <<>>, <<"ADDRESS">>),
    View("price0CumulativeLast", <<>>, <<"UINT256">>),
    View("price1CumulativeLast", <<>>, <<"UINT256">>), View("kLast", <<>>, <<"UINT256">>),
    View("blockTimestampLast", <<>>, <<"UINT256">>)>>

MotoswapPoolAbiPart2 ==
  <<Fn("sync", <<>>, <<>>), View("MINIMUM_LIQUIDITY", <<>>, <<"UINT256">>),
    Fn("mint", <<"ADDRESS">>, <<"UINT256">>), Fn("burn", <<"ADDRESS">>, <<"UINT256", "UINT256">>),
    Fn("onOP20Received", <<"ADDRESS", "ADDRESS", "UINT256", "BYTES">>, <<"BYTES4">>)>>

MotoswapPoolAbi ==
  MotoswapPoolAbiPart1 \o MotoswapPoolAbiPart2 \o OP_20_ABI \o MotoSwapPoolEvents

(***************************************************************************)
(* motoswap/MOTOSWAP_ROUTER_ABI.ts                                         *)
(***************************************************************************)

MOTOSWAP_ROUTER_ABIPart1 ==
  <<
    Fn("addLiquidity", <<"ADDRESS", "ADDRESS", "UINT256", "UINT256", "UINT256", "UINT256",
      "ADDRESS", "UINT64">>, <<"UINT256", "UINT256", "UINT256">>),
    Fn("removeLiquidity", <<"ADDRESS", "ADDRESS", "UINT256", "UINT256", "UINT256", "ADDRESS",
      "UINT64">>, <<"UINT256", "UINT256">>),
    View("quote", <<"UINT256", "UINT256", "UINT256">>, <<"UINT256">>),
    View("getAmountOut", <<"UINT256", "UINT256", "UINT256">>, <<"UINT256">>)>>

MOTOSWAP_ROUTER_ABIPart2 ==
  <<View("getAmountIn", <<"UINT256", "UINT256", "UINT256">>, <<"UINT256">>),
    View("getAmountsOut", <<"UINT256", "ARRAY_OF_ADDRESSES">>, <<"ARRAY_OF_UINT256">>),
    View("getAmountsIn", <<"UINT256", "ARRAY_OF_ADDRESSES">>, <<"ARRAY_OF_UINT256">>),
    Fn("swapExactTokensForTokensSupportingFeeOnTransferTokens", <<"UINT256", "UINT256",
      "ARRAY_OF_ADDRESSES", "ADDRESS", "UINT64">>, <<>>),
    View("factory", <<>>, <<"ADDRESS">>)>>

MOTOSWAP_ROUTER_ABI ==
  MOTOSWAP_ROUTER_ABIPart1 \o MOTOSWAP_ROUTER_ABIPart2 \o MotoSwapFactoryEvents \o OP20Events \o
  MotoSwapPoolEvents \o OP_NET_ABI

(***************************************************************************)
(* generic/STAKING_ABI.ts                                                  *)
(***************************************************************************)

StackingEvents ==
  <<Ev("Stake", <<"UINT256">>), Ev("Unstake", <<"UINT256">>), Ev("Claim", <<"UINT256">>)>>

STAKING_ABIOwn ==
  <<Fn("stake", <<"UINT256">>, <<>>), Fn("unstake", <<>>, <<>>),
    View("stakedAmount", <<"ADDRESS">>, <<"UINT256">>),
    View("stakedReward", <<"ADDRESS">>, <<"UINT256">>), Fn("claim", <<>>, <<>>),
    View("rewardPool", <<>>, <<"UINT256">>), View("totalStaked", <<>>, <<"UINT256">>)>>

STAKING_ABI ==
  STAKING_ABIOwn \o StackingEvents

(***************************************************************************)
(* motoswap/MOTOCHEF_ABI.ts                                                *)
(***************************************************************************)

OwnableEvents ==
  <<Ev("OwnershipTransferred", <<"ADDRESS", "ADDRESS">>)>>

OWNABLE_ABI ==
  <<View("owner", <<>>, <<"ADDRESS">>), Fn("renounceOwnership", <<>>, <<>>),
    Fn("transferOwnership", <<"ADDRESS">>, <<>>)>>

MotoChefEventsPart1 ==
  <<Ev("PoolAdded", <<"UINT32", "UINT256", "ADDRESS">>), Ev("Initialized", <<>>),
    Ev("PoolUpdated", <<"UINT32", "UINT64", "UINT256", "UINT256">>),
    Ev("BTCStaked", <<"ADDRESS", "UINT256", "UINT256", "UINT256">>),
    Ev("BTCUnstaked", <<"ADDRESS", "UINT256", "UINT256", "UINT256">>),
    Ev("BTCStakeRemoved", <<"ADDRESS", "UINT256", "UINT256">>),
    Ev("PoolSet", <<"UINT32", "UINT256">>),
    Ev("Deposited", <<"ADDRESS", "UINT32", "UINT256", "ADDRESS">>)>>

MotoChefEventsPart2 ==
  <<Ev("Withdrawn", <<"ADDRESS", "UINT32", "UINT256", "ADDRESS">>),
    Ev("Harvested", <<"ADDRESS", "UINT32", "UINT256">>),
    Ev("EmergencyWithdrawn", <<"ADDRESS", "UINT32", "UINT256", "ADDRESS">>)>>

MotoChefEvents ==
  MotoChefEventsPart1 \o MotoChefEventsPart2

MOTOCHEF_ABIPart1 ==
  <<Fn("update", <<"ADDRESS", "BYTES">>, <<>>),
    Fn("initialize", <<"ADDRESS", "UINT256", "ADDRESS", "UINT256", "UINT256", "UINT256",
      "STRING", "UINT256", "UINT256">>, <<>>),
    View("totalAllocPoint", <<>>, <<"UINT256">>), View("getMotoPerBlock", <<>>, <<"UINT256">>),
    View("getBonusEndBlock", <<>>, <<"UINT256">>),
    View("getBonusMultiplier", <<>>, <<"UINT256">>),
    View("getLpTokens", <<>>, <<"ARRAY_OF_ADDRESSES">>),
    View("getPoolsLength", <<>>, <<"UINT32">>), View("getLpToken", <<"UINT32">>, <<"ADDRESS">>)>>

MOTOCHEF_ABIPart2 ==
  <<View("getPoolInfo", <<"UINT32">>, <<"UINT256", "UINT64", "UINT64">>),
    View("getUserInfo", <<"UINT32", "ADDRESS">>, <<"UINT256", "INT128">>),
    View("getMultiplier", <<"UINT256", "UINT256">>, <<"UINT256">>),
    View("pendingMoto", <<"UINT32", "ADDRESS">>, <<"UINT256">>),
    View("treasuryAddress", <<>>, <<"STRING">>),
    View("getStakingTxId", <<"ADDRESS">>, <<"UINT256">>),
    View("getStakingIndex", <<"ADDRESS">>, <<"UINT256">>)>>

MOTOCHEF_ABIPart3 ==
  <<View("totalBTCStaked", <<>>, <<"UINT256">>), Fn("stakeBTC", <<"UINT256">>, <<>>),
    Fn("unstakeBTC", <<>>, <<>>), Fn("removeBTCStake", <<"ADDRESS">>, <<>>),
    Fn("add", <<"UINT256", "ADDRESS">>, <<>>), Fn("set", <<"UINT32", "UINT256", "UINT8">>, <<>>),
    Fn("updatePool", <<"UINT32">>, <<"UINT256", "UINT64", "UINT64">>),
    Fn("massUpdatePools", <<"UINT16", "ARRAY_OF_UINT32">>, <<>>),
    Fn("deposit", <<"UINT32", "UINT256", "ADDRESS">>, <<>>)>>

MOTOCHEF_ABIPart4 ==
  <<Fn("withdraw", <<"UINT32", "UINT256", "ADDRESS">>, <<>>),
    Fn("harvest", <<"UINT32", "ADDRESS">>, <<>>),
    Fn("withdrawAndHarvest", <<"UINT32", "UINT256", "ADDRESS">>, <<>>),
    Fn("emergencyWithdraw", <<"UINT32", "ADDRESS">>, <<>>),
    Fn("onOP20Received", <<"ADDRESS", "ADDRESS", "UINT256", "BYTES">>, <<"BYTES4">>),
    Fn("setMotoPerBlock", <<"UINT256">>, <<>>), Fn("setBonusEndBlock", <<"UINT256">>, <<>>),
    Fn("setBonusMultiplier", <<"UINT256">>, <<>>)>>

MOTOCHEF_ABI ==
  MOTOCHEF_ABIPart1 \o MOTOCHEF_ABIPart2 \o MOTOCHEF_ABIPart3 \o MOTOCHEF_ABIPart4 \o
  OwnableEvents \o OWNABLE_ABI \o MotoChefEvents \o OP_NET_ABI

(***************************************************************************)
(* motoswap/MOTOCHEF_FACTORY_ABI.ts                                        *)
(***************************************************************************)

MotoChefFactoryEvents ==
  <<Ev("TokenDeployed", <<"ADDRESS", "ADDRESS", "STRING", "STRING">>),
    Ev("MotoChefDeployed", <<"ADDRESS", "ADDRESS", "ADDRESS", "UINT256", "STRING">>),
    Ev("FeeRecipientsUpdated", <<"STRING", "STRING">>), Ev("FactoryPaused", <<"ADDRESS">>),
    Ev("FactoryUnpaused", <<"ADDRESS">>)>>

MotoChefFactoryAbiOwn ==
  <<Fn("initialize", <<>>, <<"BOOL">>), Fn("pauseFactory", <<>>, <<"BOOL">>),
    Fn("unpauseFactory", <<>>, <<"BOOL">>), View("isPaused", <<>>, <<"BOOL">>),
    View("owner", <<>>, <<"ADDRESS">>), View("getTokenDeployer", <<"ADDRESS">>, <<"ADDRESS">>),
    View("getTokenOwner", <<"ADDRESS">>, <<"ADDRESS">>),
    Fn("deployToken", <<"UINT256", "UINT8", "STRING", "STRING", "ADDRESS", "UINT256", "UINT256",
      "UINT256", "ADDRESS">>, <<"BOOL">>),
    Fn("deployMotoChef", <<"UINT256", "UINT256", "UINT256", "UINT256", "ADDRESS", "UINT256",
      "UINT256", "STRING", "STRING", "STRING", "ARRAY_OF_ADDRESSES", "ARRAY_OF_UINT256">>,
      <<"BOOL">>),
    Fn("updateTokenOwner", <<"ADDRESS", "ADDRESS">>, <<"BOOL">>),
    View("getUserTokens", <<"ADDRESS">>, <<"BYTES">>),
    View("getTokenMotoChef", <<"ADDRESS">>, <<"ADDRESS">>),
    View("getDeploymentInfo", <<"ADDRESS">>, <<"BOOL", "ADDRESS", "ADDRESS", "UINT64">>),
    View("getDeploymentsCount", <<>>, <<"UINT32">>),
    View("getDeploymentByIndex", <<"UINT32">>, <<"ADDRESS", "ADDRESS", "ADDRESS", "UINT64">>),
    Fn("onOP20Received", <<"ADDRESS", "ADDRESS", "UINT256", "BYTES">>, <<"BYTES4">>)>>

MotoChefFactoryAbi ==
  MotoChefFactoryAbiOwn \o MotoChefFactoryEvents \o OP_NET_ABI

(***************************************************************************)
(* motoswap/MOTOSWAP_STAKING_ABI.ts                                        *)
(***************************************************************************)

MOTOSWAP_OWNABLE_REENTRANCY_GUARD_ABI ==
  <<View("admin", <<>>, <<"ADDRESS">>), Fn("changeAdmin", <<"ADDRESS">>, <<>>),
    Fn("status", <<>>, <<"UINT256">>)>>

MotoswapStakingEvents ==
  <<Ev("RewardTokenAdded", <<"ADDRESS">>), Ev("RewardTokenRemoved", <<"ADDRESS">>)>>

MOTOSWAP_STAKING_ABIPart1 ==
  <<View("balanceOf", <<"ADDRESS">>, <<"UINT256">>), View("motoAddress", <<>>, <<"ADDRESS">>),
    View("totalSupply", <<>>, <<"UINT256">>),
    View("lastInteractedBlock", <<"ADDRESS">>, <<"UINT256">>),
    View("rewardDebt", <<"ADDRESS", "ADDRESS">>, <<"UINT256">>),
    Fn("rewardBalance", <<"ADDRESS", "ADDRESS">>, <<"UINT256">>),
    View("pendingReward", <<"ADDRESS", "ADDRESS">>, <<"UINT256">>),
    View("calculateSlashingFee", <<"ADDRESS", "UINT256">>, <<"UINT256">>),
    Fn("enabledRewardTokens", <<>>, <<"ARRAY_OF_ADDRESSES">>), Fn("stake", <<"UINT256">>, <<>>),
    Fn("unstake", <<>>, <<>>), Fn("claimRewards", <<>>, <<"ADDRESS_UINT256_TUPLE">>),
    Fn("adminAddRewardToken", <<"ADDRESS">>, <<>>),
    Fn("adminRemoveRewardToken", <<"ADDRESS">>, <<>>),
    Fn("adminChangeMotoAddress", <<"ADDRESS">>, <<>>),
    Fn("adminChangeLockupParameters", <<"UINT256", "UINT256", "UINT256">>, <<>>),
    Fn("adminEnableEmergencyWithdrawals", <<>>, <<>>)>>

MOTOSWAP_STAKING_ABIPart2 ==
  <<View("onOP20Received", <<"ADDRESS", "ADDRESS", "UINT256", "BYTES">>, <<"BYTES4">>)>>

MOTOSWAP_STAKING_ABI ==
  MOTOSWAP_STAKING_ABIPart1 \o MOTOSWAP_STAKING_ABIPart2 \o
  MOTOSWAP_OWNABLE_REENTRANCY_GUARD_ABI \o MotoswapStakingEvents \o OP_NET_ABI

(***************************************************************************)
(* motoswap/NATIVE_SWAP_ABI.ts                                             *)
(***************************************************************************)

NativeSwapEvents ==
  <<Ev("LiquidityAdded", <<"UINT256", "UINT256", "UINT64">>),
    Ev("LiquidityListed", <<"UINT128", "STRING">>),
    Ev("LiquidityRemoved", <<"UINT256", "UINT64", "UINT128">>),
    Ev("LiquidityReserved", <<"STRING", "UINT64", "UINT256", "UINT128">>),
    Ev("ListingCanceled", <<"UINT128", "UINT128">>),
    Ev("ProviderActivated", <<"UINT256", "UINT128", "UINT64">>),
    Ev("ProviderConsumed", <<"UINT256", "UINT128">>),
    Ev("ProviderFulfilled", <<"UINT256", "BOOL", "UINT256">>),
    Ev("ReservationFallback", <<"UINT128", "UINT64">>),
    Ev("ReservationCreated", <<"UINT256", "UINT64">>),
    Ev("ReservationPurged", <<"UINT128", "UINT64", "UINT64", "UINT32", "UINT32", "UINT256">>),
    Ev("SwapExecuted", <<"ADDRESS", "UINT64", "UINT256", "UINT256">>),
    Ev("WithdrawListing", <<"UINT128", "ADDRESS", "UINT256", "ADDRESS">>)>>

NativeSwapAbiPart1 ==
  <<Fn("reserve", <<"ADDRESS", "UINT64", "UINT256", "UINT8", "BYTES">>, <<>>),
    Fn("swap", <<"ADDRESS">>, <<>>), Fn("update", <<"ADDRESS", "BYTES">>, <<>>),
    Fn("listLiquidity", <<"ADDRESS", "BYTES", "STRING", "UINT128", "BOOL">>, <<>>),
    Fn("cancelListing", <<"ADDRESS">>, <<>>), Fn("withdrawListing", <<"ADDRESS">>, <<>>),
    Fn("createPool", <<"ADDRESS", "UINT256", "UINT128", "BYTES", "STRING", "UINT16", "UINT256",
      "UINT16", "UINT8", "UINT64", "UINT64">>, <<>>),
    Fn("setFees", <<"UINT64", "UINT64">>, <<>>),
    Fn("setStakingContractAddress", <<"ADDRESS">>, <<>>),
    Fn("setFeesAddress", <<"STRING">>, <<>>), Fn("pause", <<>>, <<>>), Fn("unpause", <<>>, <<>>)>>

NativeSwapAbiPart2 ==
  <<Fn("activateWithdrawMode", <<>>, <<>>), View("isPaused", <<>>, <<"BOOL">>),
    View("isWithdrawModeActive", <<>>, <<"BOOL">>),
    View("getReserve", <<"ADDRESS">>, <<"UINT256", "UINT256", "UINT64", "UINT256">>),
    View("getQuote", <<"ADDRESS", "UINT64">>, <<"UINT256", "UINT64", "UINT256", "UINT64">>),
    View("getProviderDetails", <<"ADDRESS">>, <<"UINT256", "UINT128", "UINT128", "STRING",
      "UINT32", "BOOL", "UINT32", "BOOL", "UINT64", "BOOL", "BOOL", "BOOL">>),
    View("getProviderDetailsById", <<"UINT256">>, <<"UINT256", "UINT128", "UINT128", "STRING",
      "UINT32", "BOOL", "UINT32", "BOOL", "UINT64", "BOOL", "BOOL", "BOOL">>),
    View("getQueueDetails", <<"ADDRESS">>, <<"UINT64", "UINT32", "UINT32", "UINT32", "UINT32",
      "UINT32", "UINT32", "UINT32">>),
    View("getPriorityQueueCost", <<>>, <<"UINT64">>)>>

NativeSwapAbiPart3 ==
  <<View("getFees", <<>>, <<"UINT64", "UINT64">>),
    View("getAntibotSettings", <<"ADDRESS">>, <<"UINT64", "UINT256">>),
    View("getStakingContractAddress", <<>>, <<"ADDRESS">>),
    View("getFeesAddress", <<>>, <<"STRING">>),
    View("getPoolInfo", <<"ADDRESS">>, <<"UINT8", "UINT64", "UINT64">>)>>

NativeSwapAbi ==
  NativeSwapAbiPart1 \o NativeSwapAbiPart2 \o NativeSwapAbiPart3 \o NativeSwapEvents \o
  OP_NET_ABI

(***************************************************************************)
(* motoswap/OP20_FACTORY_ABI.ts                                            *)
(***************************************************************************)

OP20FactoryEvents ==
  <<Ev("TokenDeployed", <<"ADDRESS", "ADDRESS", "STRING", "STRING">>),
    Ev("FactoryPaused", <<"ADDRESS">>), Ev("FactoryUnpaused", <<"ADDRESS">>)>>

OP20FactoryAbiOwn ==
  <<Fn("pauseFactory", <<>>, <<"BOOL">>), Fn("unpauseFactory", <<>>, <<"BOOL">>),
    View("isPaused", <<>>, <<"BOOL">>), View("owner", <<>>, <<"ADDRESS">>),
    Fn("deployToken", <<"UINT256", "UINT8", "STRING", "STRING", "ADDRESS", "UINT256", "UINT256",
      "UINT256", "ADDRESS">>, <<"BOOL">>),
    View("getTokenDeployer", <<"ADDRESS">>, <<"ADDRESS">>),
    View("getTokenOwner", <<"ADDRESS">>, <<"ADDRESS">>),
    Fn("updateTokenOwner", <<"ADDRESS", "ADDRESS">>, <<"BOOL">>),
    View("getUserTokens", <<"ADDRESS">>, <<"BYTES">>),
    View("getDeploymentInfo", <<"ADDRESS">>, <<"BOOL", "ADDRESS", "UINT64">>),
    View("getDeploymentsCount", <<>>, <<"UINT32">>),
    View("getDeploymentByIndex", <<"UINT32">>, <<"ADDRESS", "ADDRESS", "UINT64">>),
    Fn("onOP20Received", <<"ADDRESS", "ADDRESS", "UINT256", "BYTES">>, <<"BYTES4">>)>>

OP20FactoryAbi ==
  OP20FactoryAbiOwn \o OP20FactoryEvents \o OP_NET_ABI

(***************************************************************************)
(* motoswap/TEMPLATE_MOTOCHEF_ABI.ts                                       *)
(***************************************************************************)

TemplateMotoChefOverrides ==
  <<
    Fn("initialize", <<"ADDRESS", "UINT256", "UINT256", "UINT256", "UINT256", "UINT256",
      "UINT256", "STRING", "STRING", "STRING", "STRING", "STRING", "ARRAY_OF_ADDRESSES",
      "ARRAY_OF_UINT256">>, <<>>),
    View("getFarmName", <<>>, <<"STRING">>), View("getFarmBanner", <<>>, <<"STRING">>),
    Fn("stakeBTC", <<"UINT256">>, <<>>), Fn("unstakeBTC", <<>>, <<>>),
    Fn("harvest", <<"UINT32", "ADDRESS">>, <<>>), Fn("setUserTokenAddress", <<"ADDRESS">>, <<>>),
    Fn("transferOwnershipToUser", <<"ADDRESS">>, <<>>),
    View("userFeeRecipient", <<>>, <<"STRING">>),
    View("motoSwapFeeRecipient", <<>>, <<"STRING">>),
    View("opnetFeeRecipient", <<>>, <<"STRING">>), View("btcFeePercentage", <<>>, <<"UINT256">>),
    View("getFeeDistributionBps", <<>>, <<"UINT256", "UINT256", "UINT256", "UINT256">>),
    View("totalUserTokenStaked", <<>>, <<"UINT256">>),
    Fn("withdrawAndHarvest", <<"UINT32", "UINT256", "ADDRESS">>, <<>>)>>

\* The functions of the farm that the template replaces by its own.
FUNCTIONS_TO_OVERRIDE == {"initialize", "stakeBTC", "unstakeBTC", "harvest", "withdrawAndHarvest"}

BaseMotoChefAbi ==
  SelectSeq(MOTOCHEF_ABI,
            LAMBDA e : ~(e.type = "function" /\ e.name \in FUNCTIONS_TO_OVERRIDE))

TemplateMotoChefAbi ==
  TemplateMotoChefOverrides \o BaseMotoChefAbi

(***************************************************************************)
(* motoswap/TEMPLATE_OP20_ABI.ts                                           *)
(***************************************************************************)

TemplateOP20Events ==
  <<Ev("FreeMintConfigured", <<"ADDRESS", "UINT256", "UINT256">>),
    Ev("FreeMintClaimed", <<"ADDRESS", "ADDRESS", "UINT256">>),
    Ev("TokenOwnerTransferred", <<"ADDRESS", "ADDRESS">>)>>

TemplateOP20AbiOwn ==
  <<
    Fn("initialize", <<"UINT256", "UINT8", "STRING", "STRING", "ADDRESS", "UINT256", "UINT256",
      "UINT256", "ADDRESS">>, <<>>),
    Fn("mint", <<"ADDRESS", "UINT256">>, <<>>), Fn("grantMinterRole", <<"ADDRESS">>, <<"BOOL">>),
    Fn("revokeMinterRole", <<"ADDRESS">>, <<"BOOL">>),
    View("isMinter", <<"ADDRESS">>, <<"BOOL">>), View("getTokenOwner", <<>>, <<"ADDRESS">>),
    View("getFactoryAddress", <<>>, <<"ADDRESS">>),
    Fn("transferTokenOwner", <<"ADDRESS">>, <<"BOOL">>),
    Fn("freeMint", <<"UINT256">>, <<"BOOL">>), View("getFreeMintInfo", <<>>, <<"BYTES">>),
    View("deployer", <<>>, <<"ADDRESS">>),
    Fn("onOP20Received", <<"ADDRESS", "ADDRESS", "UINT256", "BYTES">>, <<"BYTES4">>)>>

TemplateOP20Abi ==
  TemplateOP20AbiOwn \o TemplateOP20Events \o OP_20_ABI \o OP_NET_ABI

(***************************************************************************)
(* stable/ORACLE_COIN.ts                                                   *)
(***************************************************************************)

MultiOracleStablecoinEvents ==
  <<Ev("OracleAdded", <<"ADDRESS", "ADDRESS">>), Ev("OracleRemoved", <<"ADDRESS", "ADDRESS">>),
    Ev("PriceSubmitted", <<"ADDRESS", "UINT256", "UINT64">>),
    Ev("PriceAggregated", <<"UINT256", "UINT32", "UINT64">>),
    Ev("Minted", <<"ADDRESS", "UINT256">>)>>

MultiOracleStablecoin_ABIOwn ==
  <<Fn("addOracle", <<"ADDRESS">>, <<>>), Fn("removeOracle", <<"ADDRESS">>, <<>>),
    Fn("submitPrice", <<"UINT256">>, <<>>), Fn("aggregatePrice", <<"ARRAY_OF_ADDRESSES">>, <<>>),
    Fn("mint", <<"ADDRESS", "UINT256">>, <<>>), View("oracleCount", <<>>, <<"UINT256">>),
    View("minOracles", <<>>, <<"UINT256">>), View("isOracleActive", <<"ADDRESS">>, <<"BOOL">>),
    View("oracleSubmission", <<"ADDRESS">>, <<"UINT256">>), View("admin", <<>>, <<"ADDRESS">>)>>

MultiOracleStablecoin_ABI ==
  MultiOracleStablecoin_ABIOwn \o MultiOracleStablecoinEvents \o OP_20S_ABI

(***************************************************************************)
(* stable/PEGGED_COIN.ts                                                   *)
(***************************************************************************)

PeggedTokenEvents ==
  <<Ev("Minted", <<"ADDRESS", "UINT256">>), Ev("Burned", <<"ADDRESS", "UINT256">>),
    Ev("CustodianChanged", <<"ADDRESS", "ADDRESS">>)>>

PeggedToken_ABIOwn ==
  <<Fn("mint", <<"ADDRESS", "UINT256">>, <<>>), Fn("burnFrom", <<"ADDRESS", "UINT256">>, <<>>),
    Fn("transferCustodian", <<"ADDRESS">>, <<>>), Fn("acceptCustodian", <<>>, <<>>),
    View("custodian", <<>>, <<"ADDRESS">>), View("pendingCustodian", <<>>, <<"ADDRESS">>)>>

PeggedToken_ABI ==
  PeggedToken_ABIOwn \o PeggedTokenEvents \o OP_20S_ABI

(***************************************************************************)
(* stable/STABLE_COIN.ts                                                   *)
(***************************************************************************)

StableCoinEvents ==
  <<Ev("Minted", <<"ADDRESS", "UINT256">>), Ev("Burned", <<"ADDRESS", "UINT256">>),
    Ev("Blacklisted", <<"ADDRESS", "ADDRESS">>), Ev("Unblacklisted", <<"ADDRESS", "ADDRESS">>),
    Ev("Paused", <<"ADDRESS">>), Ev("Unpaused", <<"ADDRESS">>),
    Ev("OwnershipTransferStarted", <<"ADDRESS", "ADDRESS">>),
    Ev("OwnershipTransferred", <<"ADDRESS", "ADDRESS">>),
    Ev("MinterChanged", <<"ADDRESS", "ADDRESS">>),
    Ev("BlacklisterChanged", <<"ADDRESS", "ADDRESS">>),
    Ev("PauserChanged", <<"ADDRESS", "ADDRESS">>)>>

StableCoin_ABIOwn ==
  <<Fn("mint", <<"ADDRESS", "UINT256">>, <<>>), Fn("burnFrom", <<"ADDRESS", "UINT256">>, <<>>),
    Fn("blacklist", <<"ADDRESS">>, <<>>), Fn("unblacklist", <<"ADDRESS">>, <<>>),
    View("isBlacklisted", <<"ADDRESS">>, <<"BOOL">>), Fn("pause", <<>>, <<>>),
    Fn("unpause", <<>>, <<>>), View("isPaused", <<>>, <<"BOOL">>),
    Fn("transferOwnership", <<"ADDRESS">>, <<>>), Fn("acceptOwnership", <<>>, <<>>),
    Fn("setMinter", <<"ADDRESS">>, <<>>), Fn("setBlacklister", <<"ADDRESS">>, <<>>),
    Fn("setPauser", <<"ADDRESS">>, <<>>), View("owner", <<>>, <<"ADDRESS">>),
    View("minter", <<>>, <<"ADDRESS">>), View("blacklister", <<>>, <<"ADDRESS">>),
    View("pauser", <<>>, <<"ADDRESS">>)>>

StableCoin_ABI ==
  StableCoin_ABIOwn \o StableCoinEvents \o OP_20S_ABI

(***************************************************************************)
(* All of them, by the name they are exported under                        *)
(***************************************************************************)

Shipped == {
  OP_NET_ABI, OP_20_ABI, OP_20S_ABI, OP_721_ABI, EXTENDED_OP721_ABI, MOTO_ABI,
  MotoSwapFactoryAbi, MotoswapPoolAbi, MOTOSWAP_ROUTER_ABI, STAKING_ABI, MOTOCHEF_ABI,
  MotoChefFactoryAbi, MOTOSWAP_STAKING_ABI, NativeSwapAbi, OP20FactoryAbi,
  TemplateMotoChefAbi, TemplateOP20Abi, MultiOracleStablecoin_ABI, PeggedToken_ABI,
  StableCoin_ABI}

=============================================================================
